---- MODULE Spec2Model ----
(***************************************************************************)
(* RustIQ: the engine (pipeline lifecycle manager), the pipeline worker    *)
(* with its SpectrumSink (frame emitter), and the two flume channels that  *)
(* connect them to the UI side.                                            *)
(*                                                                         *)
(* Threads: the manager thread runs Engine::run; every pipeline build k    *)
(* has its own worker thread running rustradio's Graph::run, whose last    *)
(* block is SpectrumSink; the environment sends commands, receives events  *)
(* and may drop its channel ends.                                          *)
(*                                                                         *)
(* The event channel is main's flume::bounded(1). What an unbounded        *)
(* channel lets the engine and the worker do (no send ever waits or finds  *)
(* the channel full) is what they do here with a consumer that receives    *)
(* every event before the next one is sent.  Both SpectrumSink versions    *)
(* are covered: the blocking one (send) and the best-effort one (try_send).*)
(*                                                                         *)
(* The display state (UiState) that the UI feeds with the events is        *)
(* specified on its own (UiSpec), in both versions of the repository: the  *)
(* pixel texture of rustiq-ui and the frame history of src/ui.             *)
(*                                                                         *)
(* FileIqSource, the file reader of src/engine/sdr.rs, is specified on its *)
(* own as well (FileSpec), byte by byte.                                   *)
(*                                                                         *)
(* So are the parts of rustiq-ui around the display state: RustIqApp's     *)
(* update with its event channel (AppSpec), the Waterfall widget           *)
(* (WidgetSpec) and the ControlPanel (PanelSpec); and the blocking         *)
(* SpectrumSink with any frame size (ShiftSpec).                           *)
(***************************************************************************)
EXTENDS Integers, Sequences, FiniteSets, TLC

\* Samples per frame. The source fixes 4096 (graph.rs:37, lib.rs:54); the
\* model scales it down, every frame still has FFT_SIZE bins.
FFT_SIZE == 2
\* Samples the blocks upstream of the sink write in one run.
MAX_SAMPLES == 5
\* Commands the UI side sends in one run.
MAX_CMDS == 2
\* flume::bounded(1) of main.
EVENT_CAP == 1

\* every ChangeSource starts at most one further build
Builds == 1..(MAX_CMDS + 1)

-----------------------------------------------------------------------------
(* messages *)

DefaultSourceConfig ==
    [kind |-> "SignalGenerator", sample_rate |-> 48000,
     signal_freq |-> 10000, amplitude |-> 0]

FileSourceConfig ==
    [kind |-> "File", path |-> "capture.iq", sample_rate |-> 3200000]

SourceConfig == {DefaultSourceConfig, FileSourceConfig}

Stop == [type |-> "Stop"]
ChangeSource(c) == [type |-> "ChangeSource", config |-> c]
Command == {Stop} \cup {ChangeSource(c) : c \in SourceConfig}

\* (mutant: the snapshot announces another size than the sink was built with)
EngineStateOtherSize(sample_rate_hz, config) ==
    [center_frequency |-> 0, sample_rate |-> sample_rate_hz,
     fft_size |-> FFT_SIZE + 1, source_config |-> config]

EngineState(sample_rate_hz, config) ==
    [center_frequency |-> 0, sample_rate |-> sample_rate_hz,
     fft_size |-> FFT_SIZE, source_config |-> config]

StateSnapshot(state) == [type |-> "StateSnapshot", state |-> state]
SpectrumData(data) == [type |-> "SpectrumData", data |-> data]

-----------------------------------------------------------------------------
VARIABLES
    policy,         \* which SpectrumSink is compiled in: "send" or "try_send"
    event_chan,     \* events queued in the event channel, a flume::bounded(EVENT_CAP)
    event_rx_alive, \* the event Receiver has not been dropped
    cmd_chan,       \* commands queued in the command channel
    cmd_tx_alive,   \* some command Sender has not been dropped
    current_config, \* Engine.current_config
    should_exit,    \* Engine.should_exit
    mgr,            \* position of the manager thread in Engine::run
    builds,         \* number of build_graph calls that returned a graph
    cancel_token,   \* cancel_token[k]: the graph's CancellationToken is cancelled
    worker,         \* worker[k]: position of build k's worker thread
    graph_result,   \* graph_result[k]: what the worker thread ended with, which
                    \* is what join() is given
    src_buf,        \* src_buf[k]: samples buffered in the sink's ReadStream
    produced,       \* produced[k]: samples the upstream blocks have written
    consumed,       \* consumed[k]: samples the sink has consumed
    spectrum_data,  \* spectrum_data[k]: the frame work() holds while it delivers
    sink_eof,       \* sink_eof[k]: work() has returned EOF
    last_ret,       \* last_ret[k]: what the latest work() invocation returned
    published,      \* history: every event enqueued, with the build it came from
    sent,           \* history: every command sent
    processed,      \* history: every command the manager took, with its build
    written,        \* history: samples written by the upstream blocks of all builds
    pending_change, \* history: configs of ChangeSource taken with the sink open, not yet answered
    ui_version,     \* which UiState is compiled in: "texture" (rustiq-ui) or "history" (src/ui)
    engine_state,   \* UiState.engine_state, an Option: {} or {state}
    min_db,         \* UiState.min_db, an Option in rustiq-ui: {} or {level}
    max_db,         \* UiState.max_db, likewise
    pixels,         \* UiState.waterfall_texture.image.pixels (gray values)
    size,           \* UiState.waterfall_texture.image.size
    needs_gpu_upload, \* UiState.waterfall_texture.needs_gpu_upload
    waterfall_history, \* UiState.waterfall_history of src/ui, newest first
    ui_events,      \* history: number of events handled
    last_event,     \* history: the event handled last
    frames_inserted, \* history: number of frames put into the raster
    provenance,     \* history: for each pixel (each entry of the frame history)
                    \* the number of the frame it came from
    intensities,    \* history: the intensities the latest row was mapped from
    repeats,        \* history: how many times in a row the latest frame was put in
    file,           \* the bytes of the file a FileIqSource has open
    file_pos,       \* the cursor of FileIqSource.file
    loop_on_eof,    \* FileIqSource.loop_on_eof
    rd,             \* position in read_samples: "idle" between calls, "loop"
    buf,            \* read_samples' buf, the caller's buffer
    byte_buf,       \* read_samples' byte_buf
    total_read,     \* read_samples' total_read
    result,         \* what the latest read_samples call returned
    reads,          \* history: number of read_samples calls
    pos_at_call,    \* history: the cursor when the latest call began
    failed,         \* history: some read_samples call has returned Err
    app_chan,       \* events waiting in RustIqApp.event_rx
    app_pc,         \* position in RustIqApp::update: "idle" between calls, "render"
    app_stale,      \* history: events still waiting that were waiting when the
                    \* latest update began
    image_pixels,   \* Waterfall.image.pixels (gray values)
    image_size,     \* Waterfall.image.size
    waterfall_needs_gpu_upload, \* Waterfall.needs_gpu_upload
    waterfall_texture_handle,   \* Waterfall.waterfall_texture_handle, an Option:
                    \* {} or {the image uploaded}
    min_px_val,     \* Waterfall.min_px_val, an Option
    max_px_val,     \* Waterfall.max_px_val, an Option
    lines_inserted, \* history: number of non-empty lines given to the Waterfall
    row_origin,     \* history: for each pixel the number of the line it came from
    pending_config, \* ControlPanel.pending_config
    has_pending_changes, \* ControlPanel.has_pending_changes
    waiting_for_apply,   \* ControlPanel.waiting_for_apply
    panel_cmds,     \* history: the commands the ControlPanel has sent
    unacknowledged, \* history: ChangeSource commands sent since the latest
                    \* update_from_engine_state
    shift_fft_size, \* SpectrumSink.fft_size of a sink run on its own
    shift_input,    \* what that sink's read_buf returns
    shift_output    \* the frame that sink sends, an Option

chanVars == <<event_chan, event_rx_alive, cmd_chan, cmd_tx_alive>>
engineVars == <<current_config, should_exit, mgr, builds, cancel_token>>
graphVars == <<worker, graph_result, src_buf, produced, consumed, spectrum_data,
               sink_eof, last_ret>>
histVars == <<published, sent, processed, written, pending_change>>
uiVars == <<ui_version, engine_state, min_db, max_db, pixels, size,
           needs_gpu_upload, waterfall_history, ui_events, last_event,
           frames_inserted, provenance, intensities, repeats>>
fileVars == <<file, file_pos, loop_on_eof, rd, buf, byte_buf, total_read, result,
             reads, pos_at_call, failed>>
appVars == <<app_chan, app_pc, app_stale>>
widgetVars == <<image_pixels, image_size, waterfall_needs_gpu_upload,
               waterfall_texture_handle, min_px_val, max_px_val, lines_inserted,
               row_origin>>
panelVars == <<pending_config, has_pending_changes, waiting_for_apply,
              panel_cmds, unacknowledged>>
shiftVars == <<shift_fft_size, shift_input, shift_output>>
\* the widgets and the sink run on their own
viewVars == <<widgetVars, panelVars, shiftVars>>
engineSide == <<policy, chanVars, engineVars, graphVars, histVars, fileVars,
               viewVars>>
\* what the engine's threads leave alone
outsideEngine == <<uiVars, appVars, viewVars, fileVars>>
vars == <<engineSide, uiVars, appVars>>

-----------------------------------------------------------------------------
(* flume channels *)

\* a bounded channel holding EVENT_CAP events accepts no further one
IsFull(chan) == Len(chan) >= EVENT_CAP

\* Sender::try_send: disconnection is reported before fullness
TrySend(chan) ==
    IF ~event_rx_alive THEN "Disconnected"
    ELSE IF IsFull(chan) THEN "Full"
    ELSE "Ok"

\* Sender::send returns once the message is queued or the receiver is gone;
\* until then the calling thread is parked
SendReturns(chan) == ~event_rx_alive \/ ~IsFull(chan)

\* (mutant: the newest command is handed out first)
RecvNewest(chan) == chan[Len(chan)]

\* Receiver::recv_timeout hands out the oldest queued command
RecvCommand(chan) == Head(chan)

-----------------------------------------------------------------------------
(* Engine::new *)

\* (mutant: the constructor builds the pipeline, as the engine without
\* ChangeSource did)
EngineNewBuilds ==
    /\ policy \in {"send", "try_send"}
    /\ event_chan = <<>>
    /\ event_rx_alive = TRUE
    /\ cmd_chan = <<>>
    /\ cmd_tx_alive = TRUE
    /\ current_config \in SourceConfig
    /\ should_exit = FALSE
    /\ mgr = "snapshot"
    /\ builds = 1
    /\ cancel_token = [k \in Builds |-> FALSE]
    /\ worker = [k \in Builds |-> "none"]
    /\ graph_result = [k \in Builds |-> "none"]
    /\ src_buf = [k \in Builds |-> <<>>]
    /\ produced = [k \in Builds |-> 0]
    /\ consumed = [k \in Builds |-> 0]
    /\ spectrum_data = [k \in Builds |-> <<>>]
    /\ sink_eof = [k \in Builds |-> FALSE]
    /\ last_ret = [k \in Builds |-> "None"]
    /\ published = <<>>
    /\ sent = <<>>
    /\ processed = <<>>
    /\ written = 0
    /\ pending_change = {}

EngineNew ==
    /\ policy \in {"send", "try_send"}
    /\ event_chan = <<>>
    /\ event_rx_alive = TRUE
    /\ cmd_chan = <<>>
    /\ cmd_tx_alive = TRUE
    /\ current_config \in SourceConfig
    /\ should_exit = FALSE
    /\ mgr = "loop"
    /\ builds = 0
    /\ cancel_token = [k \in Builds |-> FALSE]
    /\ worker = [k \in Builds |-> "none"]
    /\ graph_result = [k \in Builds |-> "none"]
    /\ src_buf = [k \in Builds |-> <<>>]
    /\ produced = [k \in Builds |-> 0]
    /\ consumed = [k \in Builds |-> 0]
    /\ spectrum_data = [k \in Builds |-> <<>>]
    /\ sink_eof = [k \in Builds |-> FALSE]
    /\ last_ret = [k \in Builds |-> "None"]
    /\ published = <<>>
    /\ sent = <<>>
    /\ processed = <<>>
    /\ written = 0
    /\ pending_change = {}

-----------------------------------------------------------------------------
(* Engine::run, the manager thread *)

Terminated == mgr \in {"returned_ok", "returned_err", "panicked"}

\* build_graph: FileSource::new(path).expect(..) panics when the file cannot
\* be opened; whether it opens is the file system's answer at that moment.
\* The fresh graph owns a fresh CancellationToken and an empty stream; what
\* the previous iteration's join was given went out of scope with it.
\* (Whenever run ends, the Engine and its command Receiver are dropped, and
\* the commands still queued with them.)
BuildGraph(next) ==
    /\ mgr = "loop"
    /\ ~should_exit
    /\ \E opens \in BOOLEAN :
         IF current_config.kind = "File" /\ ~opens
         THEN /\ mgr' = "panicked"
              /\ cmd_chan' = <<>>
              /\ UNCHANGED builds
         ELSE /\ mgr' = next
              /\ builds' = builds + 1
              /\ UNCHANGED cmd_chan
    /\ graph_result' = [k \in Builds |-> "none"]
    /\ UNCHANGED <<outsideEngine, policy, event_chan, event_rx_alive, cmd_tx_alive,
                   current_config, should_exit, cancel_token, worker, src_buf,
                   produced, consumed, spectrum_data, sink_eof, last_ret,
                   histVars>>

\* (mutant: the worker is spawned without a snapshot having been sent)
BuildThenSpawn == BuildGraph("spawn")

\* run_graph_iteration up to the snapshot: build_graph, cancel_token()
Build == BuildGraph("snapshot")

\* (mutant: the rate of the default source, whatever the config)
SampleRateHzFixed(config) == 48000

\* graph::build_graph returns the configured sample rate
SampleRateHz(config) == config.sample_rate

\* (mutant: the result of the send is ignored and the iteration goes on)
PublishSnapshotIgnoresClosed ==
    /\ mgr = "snapshot"
    /\ SendReturns(event_chan)
    /\ IF event_rx_alive
       THEN LET ev == StateSnapshot(EngineState(SampleRateHz(current_config),
                                                current_config))
            IN  /\ event_chan' = Append(event_chan, ev)
                /\ published' = Append(published, [build |-> builds, event |-> ev])
                /\ pending_change' = {}
       ELSE UNCHANGED <<event_chan, published, pending_change>>
    /\ mgr' = "spawn"
    /\ UNCHANGED <<outsideEngine, policy, event_rx_alive, cmd_chan, cmd_tx_alive,
                   current_config, should_exit, builds, cancel_token,
                   graphVars, sent, processed, written>>

\* self.event_tx.send(Event::StateSnapshot(state))?
PublishSnapshot ==
    /\ mgr = "snapshot"
    /\ SendReturns(event_chan)
    /\ IF event_rx_alive
       THEN LET ev == StateSnapshot(EngineState(SampleRateHz(current_config),
                                                current_config))
            IN  /\ event_chan' = Append(event_chan, ev)
                /\ published' = Append(published, [build |-> builds, event |-> ev])
                /\ pending_change' = {}
                /\ mgr' = "spawn"
                /\ UNCHANGED cmd_chan
       ELSE /\ mgr' = "returned_err"
            /\ cmd_chan' = <<>>
            /\ UNCHANGED <<event_chan, published, pending_change>>
    /\ UNCHANGED <<outsideEngine, policy, event_rx_alive, cmd_tx_alive,
                   current_config, should_exit, builds, cancel_token,
                   graphVars, sent, processed, written>>

\* thread::spawn(move || graph.run())
Spawn ==
    /\ mgr = "spawn"
    /\ worker' = [worker EXCEPT ![builds] = "top"]
    /\ mgr' = "poll"
    /\ UNCHANGED <<outsideEngine, policy, chanVars, current_config, should_exit,
                   builds, cancel_token, graph_result, src_buf, produced,
                   consumed, spectrum_data, sink_eof, last_ret, histVars>>

\* (mutant: ChangeSource restarts the pipeline with the config it had)
ProcessCommandKeepsConfig ==
    /\ mgr = "poll"
    /\ cmd_chan # <<>>
    /\ LET msg == RecvCommand(cmd_chan)
       IN  /\ cmd_chan' = Tail(cmd_chan)
           /\ processed' = Append(processed, [build |-> builds, cmd |-> msg])
           /\ should_exit' = (msg.type = "Stop")
           /\ mgr' = "join"
           /\ pending_change' =
                IF msg.type = "ChangeSource" /\ event_rx_alive
                THEN {msg.config} ELSE pending_change
    /\ cancel_token' = [cancel_token EXCEPT ![builds] = TRUE]
    /\ UNCHANGED <<outsideEngine, policy, event_chan, event_rx_alive,
                   cmd_tx_alive, current_config, builds, graphVars, published,
                   sent, written>>

\* process_commands, recv_timeout returned Ok(command)
ProcessCommand ==
    /\ mgr = "poll"
    /\ cmd_chan # <<>>
    /\ LET msg == RecvCommand(cmd_chan)
       IN  /\ cmd_chan' = Tail(cmd_chan)
           /\ processed' = Append(processed, [build |-> builds, cmd |-> msg])
           /\ IF msg.type = "Stop"
              THEN /\ should_exit' = TRUE
                   /\ mgr' = "join"
                   /\ UNCHANGED <<current_config, pending_change>>
              ELSE /\ current_config' = msg.config
                   /\ mgr' = "join"
                   /\ pending_change' =
                        IF event_rx_alive THEN {msg.config} ELSE {}
                   /\ UNCHANGED should_exit
    /\ cancel_token' = [cancel_token EXCEPT ![builds] = TRUE]
    /\ UNCHANGED <<outsideEngine, policy, event_chan, event_rx_alive, cmd_tx_alive,
                   builds, graphVars, published, sent, written>>

\* (mutant: a closed command channel ends the run with an error)
CommandsDisconnectedFails ==
    /\ mgr = "poll"
    /\ cmd_chan = <<>>
    /\ ~cmd_tx_alive
    /\ mgr' = "returned_err"
    /\ UNCHANGED <<outsideEngine, policy, chanVars, current_config, should_exit,
                   builds, cancel_token, graphVars, histVars>>

\* process_commands, recv_timeout returned Err(Disconnected)
CommandsDisconnected ==
    /\ mgr = "poll"
    /\ cmd_chan = <<>>
    /\ ~cmd_tx_alive
    /\ should_exit' = TRUE
    /\ cancel_token' = [cancel_token EXCEPT ![builds] = TRUE]
    /\ mgr' = "join"
    /\ UNCHANGED <<outsideEngine, policy, chanVars, current_config, builds,
                   graphVars, histVars>>

\* (mutant: the poll never looks at the worker's handle)
IsFinishedNever(k) == FALSE

\* JoinHandle::is_finished
IsFinished(k) == worker[k] = "finished"

\* (mutant: the timeout that finds the worker finished cancels as well)
PollTimeoutCancels ==
    /\ mgr = "poll"
    /\ cmd_chan = <<>>
    /\ cmd_tx_alive
    /\ IF IsFinished(builds)
       THEN /\ should_exit' = TRUE
            /\ cancel_token' = [cancel_token EXCEPT ![builds] = TRUE]
            /\ mgr' = "join"
       ELSE UNCHANGED <<should_exit, mgr, cancel_token>>
    /\ UNCHANGED <<outsideEngine, policy, chanVars, current_config, builds,
                   graphVars, histVars>>

\* (mutant: any timeout ends the polling and marks the exit)
PollTimeoutExits ==
    /\ mgr = "poll"
    /\ cmd_chan = <<>>
    /\ cmd_tx_alive
    /\ should_exit' = TRUE
    /\ mgr' = "join"
    /\ UNCHANGED <<outsideEngine, policy, chanVars, current_config, builds,
                   cancel_token, graphVars, histVars>>

\* process_commands, recv_timeout returned Err(Timeout)
PollTimeout ==
    /\ mgr = "poll"
    /\ cmd_chan = <<>>
    /\ cmd_tx_alive
    /\ IF IsFinished(builds)
       THEN /\ should_exit' = TRUE
            /\ mgr' = "join"
       ELSE UNCHANGED <<should_exit, mgr>>
    /\ UNCHANGED <<outsideEngine, policy, chanVars, current_config, builds,
                   cancel_token, graphVars, histVars>>

\* (mutant: the handle is dropped instead of joined; the thread runs on)
JoinDetached(k) == TRUE

\* (mutant: the manager goes on as soon as the token is cancelled)
JoinOnCancel(k) == cancel_token[k] \/ worker[k] = "finished"

\* JoinHandle::join returns when the thread has ended
JoinReturns(k) == worker[k] = "finished"

\* (mutant: with commands still queued the run goes on after the join)
JoinKeepsGoing ==
    /\ mgr = "join"
    /\ JoinReturns(builds)
    /\ IF should_exit /\ cmd_chan = <<>>
       THEN mgr' = "returned_ok" /\ UNCHANGED should_exit
       ELSE mgr' = "loop" /\ should_exit' = FALSE
    /\ UNCHANGED <<outsideEngine, policy, chanVars, current_config,
                   builds, cancel_token, graphVars, histVars>>

\* (mutant: graph_handle.join().unwrap()? hands the worker's fault on)
JoinUnwraps ==
    /\ mgr = "join"
    /\ JoinReturns(builds)
    /\ mgr' = IF graph_result[builds] = "panic" THEN "panicked"
              ELSE IF graph_result[builds] = "err" THEN "returned_err"
              ELSE IF should_exit THEN "returned_ok" ELSE "loop"
    /\ cmd_chan' = IF mgr' = "loop" THEN cmd_chan ELSE <<>>
    /\ UNCHANGED <<outsideEngine, policy, event_chan, event_rx_alive, cmd_tx_alive,
                   current_config, should_exit,
                   builds, cancel_token, graphVars, histVars>>

\* let _ = graph_handle.join(); Ok(()), and back in run the loop condition:
\* while !self.should_exit { .. }  Ok(())
Join ==
    /\ mgr = "join"
    /\ JoinReturns(builds)
    /\ mgr' = IF should_exit THEN "returned_ok" ELSE "loop"
    /\ cmd_chan' = IF should_exit THEN <<>> ELSE cmd_chan
    /\ UNCHANGED <<outsideEngine, policy, event_chan, event_rx_alive, cmd_tx_alive,
                   current_config, should_exit,
                   builds, cancel_token, graphVars, histVars>>

Manager ==
    \/ Build
    \/ PublishSnapshot
    \/ Spawn
    \/ ProcessCommand
    \/ CommandsDisconnected
    \/ PollTimeout
    \/ Join

-----------------------------------------------------------------------------
(* the worker thread: rustradio's Graph::run driving the blocks *)

Running(k) == worker[k] \in {"top", "deliver"}

\* the thread's closure owns the graph: when graph.run() returns the thread
\* ends with its result and the graph, its blocks and streams are dropped
ThreadEnds(k, r) ==
    /\ worker' = [worker EXCEPT ![k] = "finished"]
    /\ graph_result' = [graph_result EXCEPT ![k] = r]
    /\ src_buf' = [src_buf EXCEPT ![k] = <<>>]
    /\ produced' = [produced EXCEPT ![k] = 0]
    /\ consumed' = [consumed EXCEPT ![k] = 0]
    /\ sink_eof' = [sink_eof EXCEPT ![k] = FALSE]
    /\ last_ret' = [last_ret EXCEPT ![k] = "None"]
    /\ UNCHANGED spectrum_data

\* top of the graph's loop: a cancelled token ends the run
GraphCancelled(k) ==
    /\ worker[k] = "top"
    /\ cancel_token[k]
    /\ ThreadEnds(k, "ok")
    /\ UNCHANGED <<outsideEngine, policy, chanVars, engineVars, histVars>>

\* the graph ends on its own: every block is done (the source ran out), a
\* block's work() returned an error, or a block panicked and the thread unwound
GraphFinish(k) ==
    /\ worker[k] = "top"
    /\ \E r \in {"ok", "err", "panic"} : ThreadEnds(k, r)
    /\ UNCHANGED <<outsideEngine, policy, chanVars, engineVars, histVars>>

\* the blocks upstream of the sink write the next sample into its stream;
\* a sample is modelled by its position in the instance's stream
Upstream(k) ==
    /\ worker[k] = "top"
    /\ ~cancel_token[k]
    /\ written < MAX_SAMPLES
    /\ written' = written + 1
    /\ produced' = [produced EXCEPT ![k] = @ + 1]
    /\ src_buf' = [src_buf EXCEPT ![k] = Append(@, produced[k] + 1)]
    /\ UNCHANGED <<outsideEngine, policy, chanVars, engineVars, worker, graph_result,
                   consumed, spectrum_data, sink_eof, last_ret, published, sent,
                   processed, pending_change>>

\* input.iter().take(n).copied().collect()
Take(input, n) == SubSeq(input, 1, n)

\* (mutant: one sample too few is consumed)
ConsumeShort(input, n) ==
    IF n = 0 THEN input ELSE SubSeq(input, n, Len(input))

\* input.consume(n)
Consume(input, n) == SubSeq(input, n + 1, Len(input))

\* Vec::rotate_left(mid)
RotateLeft(s, mid) == SubSeq(s, mid + 1, Len(s)) \o SubSeq(s, 1, mid)

\* the frame work() builds: the blocking sink applies the FFT shift
MakeFrame(input) ==
    IF policy = "send"
    THEN RotateLeft(Take(input, FFT_SIZE), FFT_SIZE \div 2)
    ELSE Take(input, FFT_SIZE)

\* one round of the graph's loop, the token not cancelled: SpectrumSink::work
\* up to the delivery
SinkWork(k) ==
    /\ worker[k] = "top"
    /\ ~cancel_token[k]
    /\ IF sink_eof[k]
       THEN \* a block that returned EOF is not called again
            UNCHANGED <<worker, spectrum_data, last_ret>>
       ELSE IF Len(src_buf[k]) < FFT_SIZE
       THEN /\ last_ret' = [last_ret EXCEPT ![k] = "Pending"]
            /\ UNCHANGED <<worker, spectrum_data>>
       ELSE /\ worker' = [worker EXCEPT ![k] = "deliver"]
            /\ spectrum_data' = [spectrum_data EXCEPT ![k] = MakeFrame(src_buf[k])]
            /\ UNCHANGED last_ret
    /\ UNCHANGED <<outsideEngine, policy, chanVars, engineVars, graph_result, src_buf,
                   produced, consumed, sink_eof, histVars>>

\* what the delivery call reports when it returns
SendOutcome(chan) ==
    IF policy = "send"
    THEN IF event_rx_alive THEN "Ok" ELSE "Disconnected"
    ELSE TrySend(chan)

\* (mutant: a full channel ends the stage like a closed one)
SinkRetFullEnds(outcome) == IF outcome = "Ok" THEN "Again" ELSE "EOF"

\* work()'s return value after the delivery call
SinkRet(outcome) == IF outcome = "Disconnected" THEN "EOF" ELSE "Again"

\* (mutant: the frame is consumed before the delivery is attempted)
ConsumedFirst(ret) == FFT_SIZE

\* (mutant: everything up to two frames is consumed at once)
ConsumedTwice(ret) == IF ret = "Again" THEN 2 * FFT_SIZE ELSE 0

\* samples consumed by the invocation: input.consume(n) follows the delivery
ConsumedBy(ret) == IF ret = "Again" THEN FFT_SIZE ELSE 0

\* SpectrumSink::work from the delivery on
Deliver(k) ==
    /\ worker[k] = "deliver"
    /\ policy = "send" => SendReturns(event_chan)
    /\ LET outcome == SendOutcome(event_chan)
           ret == SinkRet(outcome)
           ev == SpectrumData(spectrum_data[k])
       IN  /\ IF outcome = "Ok"
              THEN /\ event_chan' = Append(event_chan, ev)
                   /\ published' = Append(published, [build |-> k, event |-> ev])
              ELSE UNCHANGED <<event_chan, published>>
           /\ src_buf' = [src_buf EXCEPT ![k] = Consume(@, ConsumedBy(ret))]
           /\ consumed' = [consumed EXCEPT ![k] = @ + ConsumedBy(ret)]
           /\ sink_eof' = [sink_eof EXCEPT ![k] = (ret = "EOF")]
           /\ last_ret' = [last_ret EXCEPT ![k] = ret]
    /\ spectrum_data' = [spectrum_data EXCEPT ![k] = <<>>]
    /\ worker' = [worker EXCEPT ![k] = "top"]
    /\ UNCHANGED <<outsideEngine, policy, event_rx_alive, cmd_chan, cmd_tx_alive,
                   engineVars, graph_result, produced, sent, processed,
                   written, pending_change>>

\* the steps the worker thread takes by itself
WorkerStep(k) ==
    \/ GraphCancelled(k)
    \/ SinkWork(k)
    \/ Deliver(k)

Worker ==
    \E k \in Builds :
        \/ WorkerStep(k)
        \/ Upstream(k)
        \/ GraphFinish(k)

-----------------------------------------------------------------------------
(* the UI side: the other ends of the two channels *)

\* cmd_tx.send(command); fails once the engine has dropped its receiver
SendCommand ==
    /\ cmd_tx_alive
    /\ ~Terminated
    /\ Len(sent) < MAX_CMDS
    /\ \E c \in Command :
         /\ cmd_chan' = Append(cmd_chan, c)
         /\ sent' = Append(sent, c)
    /\ UNCHANGED <<outsideEngine, policy, event_chan, event_rx_alive, cmd_tx_alive,
                   engineVars, graphVars, published, processed, written,
                   pending_change>>

\* every command Sender is dropped
DropCommandSenders ==
    /\ cmd_tx_alive
    /\ cmd_tx_alive' = FALSE
    /\ UNCHANGED <<outsideEngine, policy, event_chan, event_rx_alive, cmd_chan,
                   engineVars, graphVars, histVars>>

\* event_rx.try_recv() / recv_timeout() hands out the oldest event
RecvEvent ==
    /\ event_rx_alive
    /\ event_chan # <<>>
    /\ event_chan' = Tail(event_chan)
    /\ UNCHANGED <<outsideEngine, policy, event_rx_alive, cmd_chan, cmd_tx_alive,
                   engineVars, graphVars, histVars>>

\* the event Receiver is dropped, and with it the events still queued
DropEventReceiver ==
    /\ event_rx_alive
    /\ event_rx_alive' = FALSE
    /\ event_chan' = <<>>
    /\ UNCHANGED <<outsideEngine, policy, cmd_chan, cmd_tx_alive,
                   engineVars, graphVars, histVars>>

Environment ==
    \/ SendCommand
    \/ DropCommandSenders
    \/ RecvEvent
    \/ DropEventReceiver

-----------------------------------------------------------------------------
(* f32 arithmetic, as far as UiState uses it.  A value is finite (the      *)
(* rational n / d, d > 0), infinite (n is its sign) or not a number.       *)

Fin(n) == [cls |-> "fin", n |-> n, d |-> 1]
Ratio(n, d) == [cls |-> "fin", n |-> n, d |-> d]
INFINITY == [cls |-> "inf", n |-> 1, d |-> 1]
NEG_INFINITY == [cls |-> "inf", n |-> -1, d |-> 1]
NAN == [cls |-> "nan", n |-> 0, d |-> 1]

IsFinite(a) == a.cls = "fin"

\* a < b; every comparison with NaN is false
FLt(a, b) ==
    IF a.cls = "nan" \/ b.cls = "nan" THEN FALSE
    ELSE IF a.cls = "inf" THEN a.n < 0 /\ b # NEG_INFINITY
    ELSE IF b.cls = "inf" THEN b.n > 0
    ELSE a.n * b.d < b.n * a.d

\* a <= b
FLe(a, b) == a.cls # "nan" /\ b.cls # "nan" /\ ~FLt(b, a)

\* f32::min: the smaller one, the other one if one of them is NaN
FMin(a, b) ==
    IF a.cls = "nan" THEN b
    ELSE IF b.cls = "nan" THEN a
    ELSE IF FLt(b, a) THEN b ELSE a

\* f32::max
FMax(a, b) ==
    IF a.cls = "nan" THEN b
    ELSE IF b.cls = "nan" THEN a
    ELSE IF FLt(a, b) THEN b ELSE a

\* a - b; inf - inf is NaN
FSub(a, b) ==
    IF a.cls = "nan" \/ b.cls = "nan" THEN NAN
    ELSE IF a.cls = "inf"
         THEN IF b.cls = "inf" /\ b.n = a.n THEN NAN ELSE a
    ELSE IF b.cls = "inf" THEN [b EXCEPT !.n = -b.n]
    ELSE Ratio(a.n * b.d - b.n * a.d, a.d * b.d)

\* k * a for a literal k > 0
FScale(k, a) == IF a.cls = "fin" THEN [a EXCEPT !.n = k * a.n] ELSE a

Sign(n) == IF n < 0 THEN -1 ELSE 1

\* a / b; inf / inf and 0 / 0 are NaN, x / 0 is infinite
FDiv(a, b) ==
    IF a.cls = "nan" \/ b.cls = "nan" THEN NAN
    ELSE IF a.cls = "inf"
         THEN IF b.cls = "inf" THEN NAN
              ELSE [a EXCEPT !.n = a.n * Sign(b.n)]
    ELSE IF b.cls = "inf" THEN Fin(0)
    ELSE IF b.n = 0
         THEN IF a.n = 0 THEN NAN
              ELSE IF a.n < 0 THEN NEG_INFINITY ELSE INFINITY
    ELSE Ratio(Sign(b.n) * a.n * b.d, Sign(b.n) * b.n * a.d)

\* f32::clamp: NaN stays NaN
Clamp(a, lo, hi) ==
    IF a.cls = "nan" THEN NAN
    ELSE IF FLt(a, lo) THEN lo
    ELSE IF FLt(hi, a) THEN hi
    ELSE a

RECURSIVE ILog10(_)
\* the exponent of a power of ten
ILog10(n) == IF n < 10 THEN 0 ELSE 1 + ILog10(n \div 10)

\* f32::log10, on the magnitudes of the model (0 and powers of ten):
\* log10(0) is -inf and the logarithm of a negative number is NaN
Log10(a) ==
    IF a.cls = "nan" THEN NAN
    ELSE IF a.cls = "inf" THEN IF a.n > 0 THEN INFINITY ELSE NAN
    ELSE IF a.n = 0 THEN NEG_INFINITY
    ELSE IF a.n < 0 THEN NAN
    ELSE Fin(ILog10(a.n \div a.d))

\* `as u8`: truncates, saturates, and turns NaN into 0
AsU8(a) ==
    IF a.cls = "nan" THEN 0
    ELSE IF a.cls = "inf" THEN IF a.n > 0 THEN 255 ELSE 0
    ELSE IF a.n <= 0 THEN 0
    ELSE IF a.n \div a.d > 255 THEN 255
    ELSE a.n \div a.d

\* Decibels::from_linear: 20 * log10(linear)
FromLinear(linear) == FScale(20, Log10(linear))

\* Option::unwrap_or and Option::unwrap
UnwrapOr(opt, default) == IF opt = {} THEN default ELSE CHOOSE x \in opt : TRUE
Unwrap(opt) == CHOOSE x \in opt : TRUE

-----------------------------------------------------------------------------
(* UiState: the display state fed by the event channel.  Two versions are  *)
(* in the repository: rustiq-ui keeps a texture of pre-computed pixels,    *)
(* src/ui keeps a history of raw frames.                                   *)

\* UiState.waterfall_max_lines. The source fixes 1024 (rustiq-ui) and 512
\* (src/ui); the model scales it down.
WATERFALL_MAX_LINES == 2
\* Events the UI handles in one run.
MAX_UI_EVENTS == 4

\* The magnitudes a frame carries are norms of FFT bins (graph.rs:41-43):
\* never negative, and 0 for a silent bin.
Magnitudes == {Fin(0), Fin(1), Fin(10), Fin(100)}
\* The frames fed to the display state: one bin at one level, the others at
\* another (or the same) level.
Frames ==
    {[i \in 1..FFT_SIZE |-> IF i = 1 THEN peak ELSE floor] :
        peak \in Magnitudes, floor \in Magnitudes}

UiEvents ==
    {StateSnapshot(EngineState(SampleRateHz(c), c)) : c \in SourceConfig}
        \cup {SpectrumData(f) : f \in Frames}

NoEvent == [type |-> "None"]

\* UiState::new (with WaterfallTexture::new and ColorImage::default)
UiNew ==
    /\ engine_state = {}
    /\ min_db = IF ui_version = "texture" THEN {} ELSE {Fin(0)}
    /\ max_db = IF ui_version = "texture" THEN {} ELSE {Fin(1)}
    /\ pixels = <<>>
    /\ size = <<0, 0>>
    /\ needs_gpu_upload = FALSE
    /\ waterfall_history = <<>>
    /\ ui_events = 0
    /\ last_event = NoEvent
    /\ frames_inserted = 0
    /\ provenance = <<>>
    /\ intensities = <<>>
    /\ repeats = 0

RECURSIVE FoldMin(_, _)
\* data.iter().copied().fold(acc, f32::min)
FoldMin(data, acc) ==
    IF data = <<>> THEN acc ELSE FoldMin(Tail(data), FMin(acc, Head(data)))

RECURSIVE FoldMax(_, _)
\* data.iter().copied().fold(acc, f32::max)
FoldMax(data, acc) ==
    IF data = <<>> THEN acc ELSE FoldMax(Tail(data), FMax(acc, Head(data)))

\* (mutant: the range follows the latest frame instead of widening)
NewMinDbLatest(data, old) == {FromLinear(FoldMin(data, INFINITY))}

\* update_db_range, the new min_db
NewMinDb(data, old) ==
    {FMin(FromLinear(FoldMin(data, INFINITY)), UnwrapOr(old, INFINITY))}

\* (mutant: every frame adds headroom on top of the range)
NewMaxDbHeadroom(data, old) ==
    {FSub(FMax(FromLinear(FoldMax(data, NEG_INFINITY)),
               UnwrapOr(old, NEG_INFINITY)), Fin(-20))}

\* update_db_range, the new max_db
NewMaxDb(data, old) ==
    {FMax(FromLinear(FoldMax(data, NEG_INFINITY)),
          UnwrapOr(old, NEG_INFINITY))}

\* the range width below which every level is drawn as middle gray
RANGE_EPSILON == Ratio(1, 100)

\* magnitude_to_intensity, with the range as update_db_range left it
MagnitudeToIntensity(magnitude, lo, hi) ==
    IF FLe(magnitude, Fin(0)) THEN Fin(0)
    ELSE LET db == FScale(20, Log10(magnitude))
             range == FSub(Unwrap(hi), Unwrap(lo))
         IN  IF FLt(range, RANGE_EPSILON) THEN Ratio(1, 2)
             ELSE Clamp(FDiv(FSub(db, Unwrap(lo)), range), Fin(0), Fin(1))

\* intensity_to_color: Color32::from_gray((intensity * 255.0) as u8)
IntensityToColor(intensity) == AsU8(FScale(255, intensity))

\* (mutant: the new row stays at the end of the buffer)
RotateNone(s, k) == s

\* Vec::rotate_right(k)
RotateRight(s, k) ==
    SubSeq(s, Len(s) - k + 1, Len(s)) \o SubSeq(s, 1, Len(s) - k)

\* (mutant: the buffer is never cut)
TruncateNever(s, len) == s

\* Vec::truncate(len)
Truncate(s, len) == IF Len(s) > len THEN SubSeq(s, 1, len) ELSE s

\* (mutant: the height counts a row too many)
ImgHeightOff(len, fft_size) == len \div fft_size + 1

\* img_height = pixels.len() / fft_size
ImgHeight(len, fft_size) == len \div fft_size

\* (mutant: new pixels do not raise the flag)
MarkUpdatedKeeps(flag) == flag

\* WaterfallTexture::mark_updated: needs_gpu_upload.set(true)
MarkUpdated(flag) == TRUE

\* how often in a row this frame has now been put into the raster
Repeated(data) ==
    IF last_event.type = "SpectrumData" /\ repeats > 0
    THEN IF last_event.data = data THEN repeats + 1 ELSE 1
    ELSE 1

\* rustiq-ui handle_spectrum_update: update_db_range writes the range, then
\* insert_spectrum_line maps the frame with the range it finds
HandleSpectrumUpdate(data) ==
    /\ min_db' = IF data = <<>> THEN min_db ELSE NewMinDb(data, min_db)
    /\ max_db' = IF data = <<>> THEN max_db ELSE NewMaxDb(data, max_db)
    /\ IF engine_state = {}
       THEN /\ repeats' = 0
            /\ UNCHANGED <<pixels, size, needs_gpu_upload, frames_inserted,
                           provenance, intensities>>
       ELSE LET fft_size == Unwrap(engine_state).fft_size
                origin == [i \in 1..Len(data) |-> frames_inserted + 1]
            IN  /\ intensities' =
                     [i \in 1..Len(data) |->
                         MagnitudeToIntensity(data[i], min_db', max_db')]
                /\ pixels' =
                     LET new_pixels == [i \in 1..Len(data) |->
                                           IntensityToColor(intensities'[i])]
                     IN  Truncate(RotateRight(pixels \o new_pixels, Len(data)),
                                  fft_size * WATERFALL_MAX_LINES)
                /\ size' = <<fft_size, ImgHeight(Len(pixels'), fft_size)>>
                /\ needs_gpu_upload' = MarkUpdated(needs_gpu_upload)
                /\ frames_inserted' = frames_inserted + 1
                /\ provenance' =
                     Truncate(RotateRight(provenance \o origin, Len(data)),
                              fft_size * WATERFALL_MAX_LINES)
                /\ repeats' = Repeated(data)
    /\ UNCHANGED waterfall_history

\* src/ui update_db_range: the levels of the positive magnitudes
DbValues(data) ==
    LET Positive(mag) == FLt(Fin(0), mag)
        kept == SelectSeq(data, Positive)
    IN  [i \in 1..Len(kept) |-> FScale(20, Log10(kept[i]))]

\* VecDeque::push_front, then pop_back while longer than waterfall_max_lines
PushFrontBounded(history, data) ==
    Truncate(<<data>> \o history, WATERFALL_MAX_LINES)

\* src/ui handle_event, Event::SpectrumData
HistorySpectrumData(data) ==
    /\ LET db_values == DbValues(data)
       IN  IF db_values = <<>>
           THEN UNCHANGED <<min_db, max_db>>
           ELSE /\ min_db' = {FoldMin(db_values, INFINITY)}
                /\ max_db' = {FoldMax(db_values, NEG_INFINITY)}
    /\ waterfall_history' = PushFrontBounded(waterfall_history, data)
    /\ frames_inserted' = frames_inserted + 1
    /\ provenance' = PushFrontBounded(provenance, frames_inserted + 1)
    /\ repeats' = Repeated(data)
    /\ UNCHANGED <<pixels, size, needs_gpu_upload, intensities>>

\* UiState::handle_event
HandleEventOf(event) ==
    /\ last_event' = event
    /\ IF event.type = "StateSnapshot"
       THEN /\ engine_state' = {event.state}
            /\ repeats' = 0
            /\ UNCHANGED <<min_db, max_db, pixels, size, needs_gpu_upload,
                           waterfall_history, frames_inserted, provenance,
                           intensities>>
       ELSE /\ IF ui_version = "texture"
               THEN HandleSpectrumUpdate(event.data)
               ELSE HistorySpectrumData(event.data)
            /\ UNCHANGED engine_state
    /\ ui_events' = ui_events + 1
    /\ UNCHANGED ui_version

\* UiState::handle_event, the event one of the given ones
HandleEventFrom(events) ==
    /\ ui_events < MAX_UI_EVENTS
    /\ \E event \in events : HandleEventOf(event)
    /\ UNCHANGED <<engineSide, appVars>>

\* the events an engine sends: every frame has the snapshot's fft_size bins
HandleEvent == HandleEventFrom(UiEvents)

\* Frames whose length is not the fft_size of any snapshot. The channel's
\* type, Vec<f32>, admits them.
MismatchedFrames ==
    {[i \in 1..(FFT_SIZE - 1) |-> Fin(1)], [i \in 1..(FFT_SIZE + 1) |-> Fin(10)]}

\* any event of the channel's type
HandleAnyEvent ==
    HandleEventFrom(UiEvents \cup {SpectrumData(f) : f \in MismatchedFrames})

\* WaterfallTexture::mark_uploaded: needs_gpu_upload.set(false), through &self
MarkUploaded ==
    /\ ui_version = "texture"
    /\ needs_gpu_upload' = FALSE
    /\ UNCHANGED <<ui_version, engine_state, min_db, max_db, pixels, size,
                   waterfall_history, ui_events, last_event, frames_inserted,
                   provenance, intensities, repeats, engineSide, appVars>>

-----------------------------------------------------------------------------
(* FileIqSource (src/engine/sdr.rs): interleaved I/Q samples, two            *)
(* little-endian f32 each, read from a file.                                 *)

Min(a, b) == IF a < b THEN a ELSE b

\* size_of::<f32>()
F32_BYTES == 4
\* one complex sample: 2 * size_of::<f32>()
SAMPLE_BYTES == 2 * F32_BYTES
\* Length of the longest file read: two whole samples and half a sample.
MAX_FILE_BYTES == 20
\* Length of the longest buffer handed to read_samples.
MAX_BUF_LEN == 3
\* read_samples calls on one source.
MAX_READS == 3

\* the files read: byte j (counted from 1) of each has the value j
Files == {[j \in 1..len |-> j] : len \in 0..MAX_FILE_BYTES}

\* f32::from_le_bytes: the value is given by its bit pattern, least
\* significant byte first
FromLeBytes(b) == b[1] + 256 * b[2] + 65536 * b[3] + 16777216 * b[4]

Complex(re, im) == [re |-> re, im |-> im]

\* the buffers handed in are filled with Complex::new(0.0, 0.0)
Buffers == {[i \in 1..len |-> Complex(0, 0)] : len \in 0..MAX_BUF_LEN}

NoRet == [kind |-> "None"]
Ok(n) == [kind |-> "Ok", n |-> n]
Err == [kind |-> "Err"]

\* no FileIqSource is in use
NoFile ==
    /\ file = <<>>
    /\ file_pos = 0
    /\ loop_on_eof = FALSE
    /\ rd = "idle"
    /\ buf = <<>>
    /\ byte_buf = <<>>
    /\ total_read = 0
    /\ result = NoRet
    /\ reads = 0
    /\ pos_at_call = 0
    /\ failed = FALSE

\* FileIqSource::new on a file that opens
FileIqSourceNew ==
    /\ file \in Files
    /\ file_pos = 0
    /\ loop_on_eof \in BOOLEAN
    /\ rd = "idle"
    /\ buf = <<>>
    /\ byte_buf = <<>>
    /\ total_read = 0
    /\ result = NoRet
    /\ reads = 0
    /\ pos_at_call = 0
    /\ failed = FALSE

fileFrame ==
    <<uiVars, appVars, viewVars, policy, chanVars, engineVars, graphVars, histVars>>

\* read_samples up to the loop: byte_buf = vec![0u8; bytes_needed]
ReadSamples ==
    /\ rd = "idle"
    /\ reads < MAX_READS
    /\ \E b \in Buffers :
         /\ buf' = b
         /\ byte_buf' = [j \in 1..(Len(b) * SAMPLE_BYTES) |-> 0]
    /\ total_read' = 0
    /\ rd' = "loop"
    /\ result' = NoRet
    /\ reads' = reads + 1
    /\ pos_at_call' = file_pos
    /\ UNCHANGED <<file, file_pos, loop_on_eof, failed, fileFrame>>

\* (mutant: a sample begun counts as read)
SamplesReadRoundsUp(total) == (total + SAMPLE_BYTES - 1) \div SAMPLE_BYTES

\* total_read / (2 * size_of::<f32>())
SamplesRead(total) == total \div SAMPLE_BYTES

\* sample i (counted from 1) of a byte sequence: I from the first four bytes
\* at byte_offset, Q from the next four
SampleFromBytes(bytes, i) ==
    LET byte_offset == (i - 1) * SAMPLE_BYTES
    IN  Complex(FromLeBytes(SubSeq(bytes, byte_offset + 1,
                                   byte_offset + F32_BYTES)),
                FromLeBytes(SubSeq(bytes, byte_offset + F32_BYTES + 1,
                                   byte_offset + SAMPLE_BYTES)))

\* after the loop: the bytes read are converted and the count returned
Convert(bytes, total) ==
    /\ buf' = [i \in 1..Len(buf) |->
                 IF i <= SamplesRead(total)
                 THEN SampleFromBytes(bytes, i)
                 ELSE buf[i]]
    /\ result' = Ok(SamplesRead(total))
    /\ rd' = "idle"

\* (mutant: the end of the file ends the call in both modes)
RestartsNever(total) == FALSE

\* at the end of the file: self.loop_on_eof && total_read == 0
Restarts(total) == loop_on_eof /\ total = 0

\* One round of the loop, self.file.read(&mut byte_buf[total_read..]), and
\* when the loop is left the rest of the call. File::read may hand out fewer
\* bytes than there is room for; it hands out none at the end of the file or
\* when there is no room. (An Interrupted read is tried again and changes
\* nothing.)
FileRead ==
    /\ rd = "loop"
    /\ LET room == Len(byte_buf) - total_read
           left == Len(file) - file_pos
       IN  \/ \E n \in 1..Min(room, left) :
                /\ byte_buf' = [j \in 1..Len(byte_buf) |->
                                  IF j > total_read /\ j <= total_read + n
                                  THEN file[file_pos + j - total_read]
                                  ELSE byte_buf[j]]
                /\ file_pos' = file_pos + n
                /\ total_read' = total_read + n
                /\ IF total_read' >= Len(byte_buf)
                   THEN Convert(byte_buf', total_read')
                   ELSE UNCHANGED <<buf, result, rd>>
                /\ UNCHANGED failed
           \/ /\ Min(room, left) = 0
              /\ IF Restarts(total_read)
                 THEN /\ file_pos' = 0
                      /\ UNCHANGED <<buf, result, rd>>
                 ELSE /\ Convert(byte_buf, total_read)
                      /\ UNCHANGED file_pos
              /\ UNCHANGED <<byte_buf, total_read, failed>>
    /\ UNCHANGED <<file, loop_on_eof, reads, pos_at_call, fileFrame>>

\* a round of the loop in which the read (or the seek) fails: Err(e) => return
\* Err(e). Whether and when that happens is the file system's affair.
FileReadFails ==
    /\ rd = "loop"
    /\ result' = Err
    /\ rd' = "idle"
    /\ failed' = TRUE
    /\ UNCHANGED <<buf, byte_buf, total_read, file_pos, file, loop_on_eof,
                   reads, pos_at_call, fileFrame>>

-----------------------------------------------------------------------------
(* Waterfall (rustiq-ui/src/waterfall.rs): the widget that keeps the raster *)
(* and draws it.                                                            *)

\* Non-empty lines given to one Waterfall in one run.
MAX_LINES_INSERTED == 4

\* Waterfall::new
WaterfallNew ==
    /\ image_pixels = <<>>
    /\ image_size = <<0, 0>>
    /\ waterfall_needs_gpu_upload = FALSE
    /\ waterfall_texture_handle = {}
    /\ min_px_val = {}
    /\ max_px_val = {}
    /\ lines_inserted = 0
    /\ row_origin = <<>>

\* the lines a Waterfall is given: the frames of one engine, and an empty one
Lines == Frames \cup {<<>>}

\* update_min_max_values, the minimum: get_or_insert(INFINITY), then replaced
\* by a smaller one
UpdateMinValue(decibels, old) ==
    LET min_new == FoldMin(decibels, INFINITY)
        current_min == UnwrapOr(old, INFINITY)
    IN  {IF FLt(min_new, current_min) THEN min_new ELSE current_min}

\* update_min_max_values, the maximum
UpdateMaxValue(decibels, old) ==
    LET max_new == FoldMax(decibels, NEG_INFINITY)
        current_max == UnwrapOr(old, NEG_INFINITY)
    IN  {IF FLt(current_max, max_new) THEN max_new ELSE current_max}

\* decibels_to_color
DecibelsToColor(decibels, lo, hi) ==
    LET min_val == Unwrap(lo)
        max_val == Unwrap(hi)
        range_len == FSub(max_val, min_val)
        scaled == FDiv(FSub(decibels, min_val), FMax(range_len, RANGE_EPSILON))
    IN  AsU8(FScale(255, scaled))

widgetFrame ==
    <<uiVars, appVars, panelVars, shiftVars, fileVars, policy, chanVars,
      engineVars, graphVars, histVars>>

\* Waterfall::insert_spectrum_line. Every non-empty line has FFT_SIZE bins, so
\* the assertion on the width holds.
InsertSpectrumLine ==
    /\ \E data \in Lines :
         IF data = <<>>
         THEN UNCHANGED widgetVars
         ELSE LET img_width == Len(data)
                  decibels == [i \in 1..img_width |-> FromLinear(data[i])]
                  origin == [i \in 1..img_width |-> lines_inserted + 1]
              IN  /\ lines_inserted < MAX_LINES_INSERTED
                  /\ min_px_val' = UpdateMinValue(decibels, min_px_val)
                  /\ max_px_val' = UpdateMaxValue(decibels, max_px_val)
                  /\ image_pixels' =
                       LET new_pixels ==
                             [i \in 1..img_width |->
                                 DecibelsToColor(decibels[i], min_px_val', max_px_val')]
                       IN  RotateRight(image_pixels \o new_pixels, img_width)
                  /\ image_size' = <<img_width, Len(image_pixels') \div img_width>>
                  /\ waterfall_needs_gpu_upload' = TRUE
                  /\ lines_inserted' = lines_inserted + 1
                  /\ row_origin' = RotateRight(row_origin \o origin, img_width)
                  /\ UNCHANGED waterfall_texture_handle
    /\ UNCHANGED widgetFrame

\* Widget::ui for &mut Waterfall
WaterfallUi ==
    /\ IF image_pixels = <<>>
       THEN UNCHANGED widgetVars
       ELSE /\ image_pixels' = Truncate(image_pixels, image_size[1] * image_size[2])
            /\ row_origin' = Truncate(row_origin, image_size[1] * image_size[2])
            /\ IF waterfall_needs_gpu_upload
               THEN /\ waterfall_texture_handle' =
                         {[pixels |-> image_pixels', size |-> image_size]}
                    /\ waterfall_needs_gpu_upload' = FALSE
               ELSE UNCHANGED <<waterfall_texture_handle,
                                waterfall_needs_gpu_upload>>
            /\ UNCHANGED <<image_size, min_px_val, max_px_val, lines_inserted>>
    /\ UNCHANGED widgetFrame

-----------------------------------------------------------------------------
(* ControlPanel (rustiq-ui/src/control_panel.rs): the widget that edits a   *)
(* source configuration and sends it with Apply.                            *)

\* ChangeSource commands one ControlPanel sends in one run.
MAX_APPLIES == 3

\* what the user can set the fields to
SampleRates == {48000, 3200000}
SignalFreqs == {10000, 20000}
Amplitudes == {0, -6}
Paths == {"", "capture.iq"}

\* ControlPanel::new
ControlPanelNew ==
    /\ pending_config = DefaultSourceConfig
    /\ has_pending_changes = FALSE
    /\ waiting_for_apply = FALSE
    /\ panel_cmds = <<>>
    /\ unacknowledged = 0

panelFrame ==
    <<uiVars, appVars, widgetVars, shiftVars, fileVars, policy, chanVars,
      engineVars, graphVars, histVars>>

\* ControlPanel::update_from_engine_state
UpdateFromEngineState ==
    /\ \E config \in SourceConfig : pending_config' = config
    /\ has_pending_changes' = FALSE
    /\ waiting_for_apply' = FALSE
    /\ unacknowledged' = 0
    /\ UNCHANGED <<panel_cmds, panelFrame>>

\* SourceType::from_config
SourceTypeFromConfig(config) == config.kind

\* the config switch_source_type writes for a type
ConfigOfType(new_type) ==
    IF new_type = "SignalGenerator"
    THEN [kind |-> "SignalGenerator", sample_rate |-> 48000,
          signal_freq |-> 10000, amplitude |-> 0]
    ELSE [kind |-> "File", path |-> "", sample_rate |-> 3200000]

\* ui(), the source type selector: a click on one of its labels
SwitchSourceType ==
    /\ ~waiting_for_apply
    /\ \E new_type \in {"SignalGenerator", "File"} :
         IF new_type = SourceTypeFromConfig(pending_config)
         THEN UNCHANGED <<pending_config, has_pending_changes>>
         ELSE /\ pending_config' = ConfigOfType(new_type)
              /\ has_pending_changes' = TRUE
    /\ UNCHANGED <<waiting_for_apply, panel_cmds, unacknowledged, panelFrame>>

\* the configs one changed field makes of a config
Edited(config) ==
    ({[config EXCEPT !.sample_rate = r] : r \in SampleRates}
       \cup (IF config.kind = "SignalGenerator"
             THEN {[config EXCEPT !.signal_freq = f] : f \in SignalFreqs}
                    \cup {[config EXCEPT !.amplitude = a] : a \in Amplitudes}
             ELSE {[config EXCEPT !.path = p] : p \in Paths}))
      \ {config}

\* ui(), the source-specific controls: one field reports changed()
EditField ==
    /\ ~waiting_for_apply
    /\ \E config \in Edited(pending_config) : pending_config' = config
    /\ has_pending_changes' = TRUE
    /\ UNCHANGED <<waiting_for_apply, panel_cmds, unacknowledged, panelFrame>>

\* (mutant: Apply stays enabled while an answer is awaited)
CanApplyWhileWaiting == has_pending_changes

\* ui(), can_apply
CanApply == has_pending_changes /\ ~waiting_for_apply

\* ui(), a click on Apply: send_change_source on the unbounded command channel
ClickApply ==
    /\ CanApply
    /\ Len(panel_cmds) < MAX_APPLIES
    /\ waiting_for_apply' = TRUE
    /\ panel_cmds' = Append(panel_cmds, ChangeSource(pending_config))
    /\ unacknowledged' = unacknowledged + 1
    /\ UNCHANGED <<pending_config, has_pending_changes, panelFrame>>

\* Widget::ui for &mut ControlPanel: one pass with at most one input in it
ControlPanelUi == SwitchSourceType \/ EditField \/ ClickApply

-----------------------------------------------------------------------------
(* SpectrumSink with the blocking delivery, run on its own with any frame   *)
(* size.                                                                    *)

\* The largest fft_size a sink is built with.
MAX_FRAME_SIZE == 4

\* the values of the bins
BinValues == 0..2

ShiftInputs ==
    UNION {[1..len -> BinValues] : len \in 0..MAX_FRAME_SIZE}

\* SpectrumSink::new, its input stream holding some samples
SpectrumSinkNew ==
    /\ shift_fft_size \in 1..MAX_FRAME_SIZE
    /\ shift_input \in ShiftInputs
    /\ shift_output = {}

\* no sink is run on its own
NoShift ==
    /\ shift_fft_size = 1
    /\ shift_input = <<>>
    /\ shift_output = {}

\* spectrum_data: the first n samples, rotated left by n / 2
FftShift(input, n) == RotateLeft(Take(input, n), n \div 2)

\* SpectrumSink::work, the receiver alive: the frame is sent and consumed
WorkAlone ==
    /\ shift_output = {}
    /\ Len(shift_input) >= shift_fft_size
    /\ shift_output' =
         {[frame |-> FftShift(shift_input, shift_fft_size),
           rest |-> Consume(shift_input, shift_fft_size)]}
    /\ UNCHANGED <<shift_fft_size, shift_input, uiVars, appVars, widgetVars,
                   panelVars, fileVars, policy, chanVars, engineVars,
                   graphVars, histVars>>

-----------------------------------------------------------------------------
(* RustIqApp (rustiq-ui/src/lib.rs, src/ui/mod.rs): update, called by the   *)
(* toolkit once per frame.                                                  *)

\* Events that wait in the event channel at one time.
MAX_PENDING == 2

\* the events the sender puts into the channel
AppEvents ==
    {StateSnapshot(EngineState(SampleRateHz(DefaultSourceConfig),
                               DefaultSourceConfig))}
        \cup {SpectrumData([i \in 1..FFT_SIZE |-> Fin(1)]),
              SpectrumData([i \in 1..FFT_SIZE |-> IF i = 1 THEN Fin(10) ELSE Fin(1)])}

\* RustIqApp::new
RustIqAppNew ==
    /\ app_chan = <<>>
    /\ app_pc = "idle"
    /\ app_stale = 0

\* the sender's side of the event channel
AppSend ==
    /\ Len(app_chan) < MAX_PENDING
    /\ \E event \in AppEvents : app_chan' = Append(app_chan, event)
    /\ UNCHANGED <<app_pc, app_stale, uiVars, engineSide>>

\* update, "Pull events from engine": one try_recv, and handle_event if it
\* returned an event
AppUpdate ==
    /\ app_pc = "idle"
    /\ IF app_chan = <<>>
       THEN UNCHANGED <<uiVars, app_chan, app_stale>>
       ELSE /\ ui_events < MAX_UI_EVENTS
            /\ HandleEventOf(Head(app_chan))
            /\ app_chan' = Tail(app_chan)
            /\ app_stale' = Len(app_chan')
    /\ app_pc' = "render"
    /\ UNCHANGED engineSide

\* update, the panels: the raster is drawn once a snapshot has arrived, which
\* marks the texture as uploaded
AppRender ==
    /\ app_pc = "render"
    /\ app_pc' = "idle"
    /\ needs_gpu_upload' =
         IF ui_version = "texture" /\ engine_state # {}
         THEN FALSE ELSE needs_gpu_upload
    /\ UNCHANGED <<ui_version, engine_state, min_db, max_db, pixels, size,
                   waterfall_history, ui_events, last_event, frames_inserted,
                   provenance, intensities, repeats, app_chan, app_stale,
                   engineSide>>

\* no widget, panel, sink or application is run on its own
NoView ==
    /\ WaterfallNew
    /\ ControlPanelNew
    /\ NoShift
    /\ RustIqAppNew

-----------------------------------------------------------------------------
\* the engine with its pipeline; the display state is left as constructed
Init ==
    /\ EngineNew
    /\ ui_version = "texture"
    /\ UiNew
    /\ NoFile
    /\ NoView

Next == Manager \/ Worker \/ Environment

Spec == Init /\ [][Next]_vars

\* Both threads are scheduled by the operating system and keep running while
\* they can; the UI side owes the engine nothing.
FairSpec ==
    /\ Spec
    /\ WF_vars(Manager)
    /\ \A k \in Builds : WF_vars(WorkerStep(k))

\* The engine left alone by the UI side: no command is ever sent and the
\* command senders are kept, so every poll ends by its timeout and the token
\* is never cancelled.
QuietManager ==
    \/ Build
    \/ PublishSnapshot
    \/ Spawn
    \/ PollTimeout
    \/ Join

QuietWorker ==
    \E k \in Builds :
        \/ SinkWork(k)
        \/ Deliver(k)
        \/ Upstream(k)
        \/ GraphFinish(k)

QuietEnvironment ==
    \/ RecvEvent
    \/ DropEventReceiver

QuietNext == QuietManager \/ QuietWorker \/ QuietEnvironment

QuietSpec == Init /\ [][QuietNext]_vars

\* the manager thread keeps running while it can
FairQuietSpec ==
    /\ QuietSpec
    /\ WF_vars(QuietManager)

\* the display state alone, fed with any events; the engine is left as
\* constructed
UiInit ==
    /\ EngineNew
    /\ policy = "send"
    /\ current_config = DefaultSourceConfig
    /\ ui_version \in {"texture", "history"}
    /\ UiNew
    /\ NoFile
    /\ NoView

UiNext == HandleEvent \/ MarkUploaded

UiSpec == UiInit /\ [][UiNext]_vars

\* a FileIqSource read by one caller; engine and display state are left as
\* constructed
FileInit ==
    /\ EngineNew
    /\ policy = "send"
    /\ current_config = DefaultSourceConfig
    /\ ui_version = "texture"
    /\ UiNew
    /\ FileIqSourceNew
    /\ NoView

FileNext == ReadSamples \/ FileRead \/ FileReadFails

FileSpec == FileInit /\ [][FileNext]_vars

\* the caller's thread keeps running: a call that can take a step takes it;
\* nothing makes a read fail
FairFileSpec ==
    /\ FileSpec
    /\ WF_vars(FileRead)

\* the display state fed with whatever the event channel's type admits
UiAnyNext == HandleAnyEvent \/ MarkUploaded

UiAnySpec == UiInit /\ [][UiAnyNext]_vars

\* the widgets as constructed; engine and display state are left as
\* constructed too
ViewInit ==
    /\ EngineNew
    /\ policy = "send"
    /\ current_config = DefaultSourceConfig
    /\ ui_version = "texture"
    /\ UiNew
    /\ NoFile
    /\ WaterfallNew
    /\ ControlPanelNew
    /\ NoShift
    /\ RustIqAppNew

WidgetNext == InsertSpectrumLine \/ WaterfallUi

\* a Waterfall given lines and drawn, in any order
WidgetSpec == ViewInit /\ [][WidgetNext]_vars

PanelNext == UpdateFromEngineState \/ ControlPanelUi

\* a ControlPanel used by the user and told the engine's state, in any order
PanelSpec == ViewInit /\ [][PanelNext]_vars

\* a blocking sink of any frame size with any input
ShiftInit ==
    /\ EngineNew
    /\ policy = "send"
    /\ current_config = DefaultSourceConfig
    /\ ui_version = "texture"
    /\ UiNew
    /\ NoFile
    /\ WaterfallNew
    /\ ControlPanelNew
    /\ SpectrumSinkNew
    /\ RustIqAppNew

ShiftNext == WorkAlone

ShiftSpec == ShiftInit /\ [][ShiftNext]_vars

AppNext == AppSend \/ AppUpdate \/ AppRender

\* the application called frame after frame while events arrive
AppSpec == UiInit /\ [][AppNext]_vars

-----------------------------------------------------------------------------
(* what the event channel has carried, per pipeline build *)

SnapshotsOf(k) ==
    {i \in DOMAIN published :
        published[i].build = k /\ published[i].event.type = "StateSnapshot"}

FramesOf(k) ==
    {i \in DOMAIN published :
        published[i].build = k /\ published[i].event.type = "SpectrumData"}

\* the frames build k delivered, in the order of the channel
Delivered(k) ==
    LET OfBuild(e) == e.build = k /\ e.event.type = "SpectrumData"
        sel == SelectSeq(published, OfBuild)
    IN  [i \in 1..Len(sel) |-> sel[i].event.data]

\* the i-th FFT_SIZE-sized chunk of an instance's source stream
Chunk(i) == [j \in 1..FFT_SIZE |-> (i - 1) * FFT_SIZE + j]

\* a chunk with bin 0 moved to the centre: out[j] = in[(j + n/2) mod n], 0-based
Recentred(c) ==
    [j \in 1..FFT_SIZE |-> c[((j - 1 + FFT_SIZE \div 2) % FFT_SIZE) + 1]]

-----------------------------------------------------------------------------
\* C1: the first event on the event channel is a StateSnapshot; no build
\* publishes more than one StateSnapshot, a build whose worker was started has
\* published exactly one, and every SpectrumData of a build comes after that
\* build's StateSnapshot.
C1_SnapshotPrecedesFrames ==
    /\ published # <<>> => published[1].event.type = "StateSnapshot"
    /\ \A k \in Builds :
         /\ Cardinality(SnapshotsOf(k)) <= 1
         /\ worker[k] # "none" => Cardinality(SnapshotsOf(k)) = 1
         /\ \A i \in FramesOf(k) : \E j \in SnapshotsOf(k) : j < i

\* a rebuilt pipeline has delivered a frame after its own snapshot
C1_Witness ==
    /\ FramesOf(1) # {}
    /\ FramesOf(2) # {}

\* C2: once a Stop has been sent, Engine::run eventually ends, whatever the
\* pipeline is doing.
C2_StopEndsRun ==
    (\E i \in DOMAIN sent : sent[i].type = "Stop") ~> Terminated

\* C3: a ChangeSource(c) taken while the event sink is open is answered by a
\* further StateSnapshot carrying c, from a pipeline built from c: the run never
\* ends with the sink still open and the change unanswered, and the snapshot of
\* the build after a ChangeSource carries that command's config.
C3_ChangeSourceAnswered ==
    /\ ~(Terminated /\ event_rx_alive /\ pending_change # {})
    /\ \A i \in DOMAIN processed :
         processed[i].cmd.type = "ChangeSource" =>
            \A j \in SnapshotsOf(processed[i].build + 1) :
                published[j].event.state.source_config = processed[i].cmd.config

\* C4: every SpectrumData of build k is enqueued before the StateSnapshot of
\* build k+1.
C4_NoLateFrame ==
    \A k \in Builds : \A i \in FramesOf(k) : \A j \in SnapshotsOf(k + 1) : i < j

\* a build that delivered frames has been followed by the next build's snapshot
C4_Witness ==
    \E k \in Builds : FramesOf(k) # {} /\ SnapshotsOf(k + 1) # {}

\* C5: at most one worker thread is alive, and none is while the manager
\* builds the next pipeline or after run() has ended.
C5_OneWorker ==
    /\ Cardinality({k \in Builds : Running(k)}) <= 1
    /\ mgr \in {"loop", "snapshot", "spawn", "returned_ok", "returned_err",
                "panicked"}
          => \A k \in Builds : ~Running(k)

\* the second build's worker runs, the first one's has ended
C5_Witness ==
    /\ builds = 2
    /\ Running(2)
    /\ worker[1] = "finished"

\* C6: the commands taken are a prefix of the commands sent, no iteration
\* takes more than one command, and the manager is out of the polling loop as
\* soon as its iteration has taken one.
C6_ArrivalOrder ==
    /\ Len(processed) <= Len(sent)
    /\ \A i \in DOMAIN processed : processed[i].cmd = sent[i]
    /\ \A k \in Builds :
         Cardinality({i \in DOMAIN processed : processed[i].build = k}) <= 1
    /\ mgr = "poll" => \A i \in DOMAIN processed : processed[i].build # builds

\* a ChangeSource and then a Stop have been taken, the Stop by the rebuilt
\* pipeline's iteration
C6_Witness ==
    /\ Len(processed) = 2
    /\ processed[1].cmd.type = "ChangeSource"
    /\ processed[2].cmd.type = "Stop"
    /\ \E i \in DOMAIN processed : processed[i].build = 2

\* C7: every invocation of SpectrumSink::work returns, also when the consumer
\* stops receiving and keeps the bounded channel open.
C7_WorkReturns ==
    \A k \in Builds : (worker[k] = "deliver") ~> (worker[k] # "deliver")

\* C8: under try_send, with a frame taken and the bounded channel full (and
\* open), work() is not blocked, and the step that ends it publishes nothing,
\* advances the consumption pointer by FFT_SIZE and returns Again.
C8_DropWhenFull ==
    /\ [](\A k \in Builds :
            (policy = "try_send" /\ worker[k] = "deliver") => ENABLED Deliver(k))
    /\ [][\A k \in Builds :
            (/\ policy = "try_send"
             /\ worker[k] = "deliver"
             /\ worker'[k] # "deliver"
             /\ event_rx_alive
             /\ IsFull(event_chan))
            => /\ event_chan' = event_chan
               /\ published' = published
               /\ consumed'[k] = consumed[k] + FFT_SIZE
               /\ Len(src_buf'[k]) = Len(src_buf[k]) - FFT_SIZE
               /\ last_ret'[k] = "Again"
               /\ ~sink_eof'[k]
               /\ worker'[k] = "top"]_vars

\* a frame was dropped: more was consumed than was delivered
C8_Witness ==
    /\ policy = "try_send"
    /\ \E k \in Builds :
         /\ last_ret[k] = "Again"
         /\ consumed[k] > FFT_SIZE * Cardinality(FramesOf(k))

\* C9: under either policy, a delivery that finds the channel disconnected
\* returns (it is not blocked), and the step that ends work() returns EOF,
\* publishes nothing and consumes nothing.
C9_DisconnectedEndsStage ==
    /\ [](\A k \in Builds :
            (worker[k] = "deliver" /\ ~event_rx_alive) => ENABLED Deliver(k))
    /\ [][\A k \in Builds :
            (/\ worker[k] = "deliver"
             /\ worker'[k] # "deliver"
             /\ ~event_rx_alive)
            => /\ last_ret'[k] = "EOF"
               /\ sink_eof'[k]
               /\ event_chan' = event_chan
               /\ published' = published
               /\ consumed'[k] = consumed[k]
               /\ src_buf'[k] = src_buf[k]]_vars

\* the stage has ended with a whole frame still buffered and nothing consumed
C9_Witness ==
    \E k \in Builds :
        /\ sink_eof[k]
        /\ last_ret[k] = "EOF"
        /\ consumed[k] = 0
        /\ Len(src_buf[k]) >= FFT_SIZE

\* the frames are chunks of the stream, taken in increasing order
IsOrderedSubsequenceOfChunks(f) ==
    /\ \A i \in DOMAIN f : \E m \in 1..MAX_SAMPLES : f[i] = Chunk(m)
    /\ \A i, j \in DOMAIN f :
         i < j => \A m, n \in 1..MAX_SAMPLES :
                    (f[i] = Chunk(m) /\ f[j] = Chunk(n)) => m < n

\* C10 as claimed: the frames a build delivers are, in order, the consecutive
\* FFT_SIZE-sized chunks of its source stream under the blocking policy, and an
\* order-preserving subsequence of them under the best-effort policy.
C10_FramesAreChunks ==
    \A k \in Builds :
        LET f == Delivered(k)
        IN  IF policy = "send"
            THEN \A i \in DOMAIN f : f[i] = Chunk(i)
            ELSE IsOrderedSubsequenceOfChunks(f)

\* C10 amended: under the blocking policy the i-th frame delivered is the i-th
\* chunk re-centred (rotated left by FFT_SIZE / 2); under the best-effort
\* policy the frames are an order-preserving subsequence of the chunks.
C10_FramesAreRecentredChunks ==
    \A k \in Builds :
        LET f == Delivered(k)
        IN  IF policy = "send"
            THEN \A i \in DOMAIN f : f[i] = Recentred(Chunk(i))
            ELSE IsOrderedSubsequenceOfChunks(f)

\* a blocking sink has delivered two frames of one build
C10_Witness ==
    /\ policy = "send"
    /\ \E k \in Builds : Len(Delivered(k)) = 2

-----------------------------------------------------------------------------
\* C11: one invocation of SpectrumSink::work publishes at most one frame and
\* consumes nothing or exactly FFT_SIZE samples, however many are buffered: it
\* takes a frame only when FFT_SIZE samples are buffered, the frame it holds
\* has FFT_SIZE bins, an invocation that returns Again has consumed exactly
\* the FFT_SIZE samples at the head of the stream, and with fewer than FFT_SIZE
\* samples buffered it takes no frame, publishes and consumes nothing and
\* returns Pending.
C11_OneFramePerInvocation ==
    [][\A k \in Builds :
         /\ Cardinality(FramesOf(k))' <= Cardinality(FramesOf(k)) + 1
         /\ (worker[k] = "top" /\ worker'[k] = "deliver")
              => /\ Len(src_buf[k]) >= FFT_SIZE
                 /\ Len(spectrum_data'[k]) = FFT_SIZE
                 /\ published' = published
                 /\ consumed'[k] = consumed[k]
                 /\ src_buf'[k] = src_buf[k]
         /\ (worker[k] = "deliver" /\ worker'[k] = "top")
              => /\ consumed'[k] \in {consumed[k], consumed[k] + FFT_SIZE}
                 /\ last_ret'[k] = "Again"
                      => /\ consumed'[k] = consumed[k] + FFT_SIZE
                         /\ src_buf'[k] =
                              SubSeq(src_buf[k], FFT_SIZE + 1, Len(src_buf[k]))
         /\ (worker[k] = "top" /\ Len(src_buf[k]) < FFT_SIZE)
              => /\ worker'[k] # "deliver"
                 /\ FramesOf(k)' = FramesOf(k)
                 /\ consumed'[k] \in {consumed[k], 0}
         /\ (last_ret'[k] = "Pending" /\ last_ret[k] # "Pending")
              => /\ Len(src_buf[k]) < FFT_SIZE
                 /\ UNCHANGED <<published, event_chan, consumed, src_buf>>]_vars

\* an invocation has consumed one frame out of two buffered ones
C11_Witness ==
    \E k \in Builds :
        /\ last_ret[k] = "Again"
        /\ consumed[k] = FFT_SIZE
        /\ Len(src_buf[k]) >= FFT_SIZE

\* C12: every SpectrumData published has as many bins as the fft_size of the
\* StateSnapshot of its build, and that snapshot exists.
C12_FrameLengthIsSnapshotSize ==
    \A k \in Builds : \A i \in FramesOf(k) :
        /\ SnapshotsOf(k) # {}
        /\ \A j \in SnapshotsOf(k) :
             Len(published[i].event.data) = published[j].event.state.fft_size

\* the pipeline rebuilt after a ChangeSource has published a frame
C12_Witness ==
    \E i \in DOMAIN published :
        /\ published[i].build = 2
        /\ published[i].event.type = "SpectrumData"
        /\ processed # <<>>
        /\ processed[1].cmd.type = "ChangeSource"

-----------------------------------------------------------------------------
(* the raster, row by row *)

\* row r of an image of the given width, row 1 the topmost
Row(image, r, width) == SubSeq(image, (r - 1) * width + 1, r * width)

\* rows the raster holds once the frames put in so far have passed through
RowsKept == Min(frames_inserted, WATERFALL_MAX_LINES)

\* C13: the raster never holds more than WATERFALL_MAX_LINES rows: at most
\* fft_size * WATERFALL_MAX_LINES pixels in the texture, at most
\* WATERFALL_MAX_LINES frames in the history.
C13_RasterBounded ==
    /\ Len(pixels) <= FFT_SIZE * WATERFALL_MAX_LINES
    /\ \A s \in engine_state :
         Len(pixels) <= s.fft_size * WATERFALL_MAX_LINES
    /\ Len(waterfall_history) <= WATERFALL_MAX_LINES

\* more frames than the raster holds have been put in
C13_Witness == frames_inserted > WATERFALL_MAX_LINES

\* C14: after k frames have been put in, the raster holds Min(k,
\* WATERFALL_MAX_LINES) rows, row r is the row of frame k - r + 1 (the latest
\* frame is row 1), and row 1 shows the frame handled last.
C14_NewestFirst ==
    /\ ui_version = "texture" =>
         /\ Len(pixels) = FFT_SIZE * RowsKept
         /\ Len(provenance) = Len(pixels)
         /\ \A r \in 1..RowsKept : \A i \in 1..FFT_SIZE :
              Row(provenance, r, FFT_SIZE)[i] = frames_inserted - r + 1
         /\ (frames_inserted > 0 /\ last_event.type = "SpectrumData") =>
              \A i \in 1..FFT_SIZE :
                 Row(pixels, 1, FFT_SIZE)[i] = IntensityToColor(intensities[i])
    /\ ui_version = "history" =>
         /\ Len(waterfall_history) = RowsKept
         /\ Len(provenance) = Len(waterfall_history)
         /\ \A r \in 1..RowsKept : provenance[r] = frames_inserted - r + 1
         /\ last_event.type = "SpectrumData" =>
              waterfall_history[1] = last_event.data

\* the oldest row has been evicted, and the rows left differ from each other
C14_Witness ==
    /\ ui_version = "texture"
    /\ frames_inserted = WATERFALL_MAX_LINES + 1
    /\ Row(pixels, 1, FFT_SIZE) # Row(pixels, 2, FFT_SIZE)

\* C15: in rustiq-ui, min_db never increases and max_db never decreases once
\* set, and after a non-empty frame has been handled the range holds the level
\* of every magnitude of that frame.
C15_RangeOnlyWidens ==
    [][ui_version = "texture" =>
         /\ min_db # {} =>
              min_db' # {} /\ FLe(Unwrap(min_db'), Unwrap(min_db))
         /\ max_db # {} =>
              max_db' # {} /\ FLe(Unwrap(max_db), Unwrap(max_db'))
         /\ (ui_events' = ui_events + 1 /\ last_event'.type = "SpectrumData")
              => \A i \in DOMAIN last_event'.data :
                    /\ FLe(Unwrap(min_db'), FromLinear(last_event'.data[i]))
                    /\ FLe(FromLinear(last_event'.data[i]), Unwrap(max_db'))]_vars

\* the frame handled last lies strictly inside the range earlier frames left
C15_Witness ==
    /\ ui_version = "texture"
    /\ last_event.type = "SpectrumData"
    /\ \A i \in DOMAIN last_event.data :
         /\ FLt(Unwrap(min_db), FromLinear(last_event.data[i]))
         /\ FLt(FromLinear(last_event.data[i]), Unwrap(max_db))

\* C16: in rustiq-ui, a frame put in N times in a row has given N identical
\* rows: the topmost N rows of the raster (as many of them as it holds) are
\* the same.
C16_RepeatsGiveSameRows ==
    ui_version = "texture" =>
        /\ repeats <= frames_inserted
        /\ \A r \in 1..Min(repeats, WATERFALL_MAX_LINES) :
             /\ Row(pixels, r, FFT_SIZE) = Row(pixels, 1, FFT_SIZE)
             /\ Row(provenance, r, FFT_SIZE)[1] = frames_inserted - r + 1

\* a frame mapped to two different grays was put in twice, after a frame
\* that had set another range
C16_Witness ==
    /\ ui_version = "texture"
    /\ repeats = 2
    /\ frames_inserted > 2
    /\ \E i, j \in 1..FFT_SIZE :
         Row(pixels, 1, FFT_SIZE)[i] # Row(pixels, 1, FFT_SIZE)[j]

\* an intensity within [0, 1]
InUnitInterval(x) == FLe(Fin(0), x) /\ FLe(x, Fin(1))

\* C17: every intensity magnitude_to_intensity produces lies in [0, 1], and
\* with a range narrower than RANGE_EPSILON every magnitude of the frame is
\* mapped to 0.5.
C17_IntensityInUnitInterval ==
    ui_version = "texture" =>
        \A i \in DOMAIN intensities :
            /\ InUnitInterval(intensities[i])
            /\ FLt(FSub(Unwrap(max_db), Unwrap(min_db)), RANGE_EPSILON)
                 => intensities[i] = Ratio(1, 2)

\* C18: in rustiq-ui, min_db and max_db are finite whenever they are set.
C18_RangeFinite ==
    ui_version = "texture" =>
        /\ \A x \in min_db : IsFinite(x)
        /\ \A x \in max_db : IsFinite(x)

\* every other part of the display state
exceptFlag == <<ui_version, engine_state, min_db, max_db, pixels, size,
                waterfall_history, ui_events, last_event, frames_inserted,
                provenance, intensities, repeats>>

\* C19: needs_gpu_upload is false at first; putting a row into the raster
\* sets it; it falls only by mark_uploaded, a step that changes nothing else
\* of the display state; and mark_uploaded can be called in every state and
\* leaves the flag false.
C19_DirtyFlag ==
    /\ ~needs_gpu_upload
    /\ [](ui_version = "texture" => ENABLED MarkUploaded)
    /\ [][ui_version = "texture" =>
            /\ frames_inserted' # frames_inserted => needs_gpu_upload'
            /\ (needs_gpu_upload /\ ~needs_gpu_upload')
                 => UNCHANGED exceptFlag
            /\ (needs_gpu_upload' # needs_gpu_upload /\ UNCHANGED exceptFlag)
                 => ~needs_gpu_upload']_vars

\* a row was put in, uploaded and acknowledged
C19_Witness ==
    /\ ui_version = "texture"
    /\ pixels # <<>>
    /\ ~needs_gpu_upload

\* C20: in rustiq-ui, once a frame has been put in, the declared size is
\* [fft_size, pixel count / fft_size], and width * height is the pixel count.
C20_DeclaredSize ==
    (ui_version = "texture" /\ frames_inserted > 0) =>
        /\ size = <<Unwrap(engine_state).fft_size,
                    Len(pixels) \div Unwrap(engine_state).fft_size>>
        /\ size[1] * size[2] = Len(pixels)

\* the raster is full and the declared height is its row count
C20_Witness ==
    /\ ui_version = "texture"
    /\ frames_inserted > WATERFALL_MAX_LINES
    /\ size = <<FFT_SIZE, WATERFALL_MAX_LINES>>

-----------------------------------------------------------------------------
\* C21: in rustiq-ui, a frame whose length is not the fft_size of the current
\* snapshot is not appended to the raster: handling it leaves pixels, size and
\* the dirty flag as they were, and width * height is the pixel count in every
\* state.
C21_MismatchedFrameRejected ==
    /\ [](ui_version = "texture" => size[1] * size[2] = Len(pixels))
    /\ [][(/\ ui_version = "texture"
           /\ ui_events' = ui_events + 1
           /\ last_event'.type = "SpectrumData"
           /\ engine_state # {}
           /\ Len(last_event'.data) # Unwrap(engine_state).fft_size)
          => UNCHANGED <<pixels, size, needs_gpu_upload>>]_vars

\* C22 as claimed: Engine::run never ends with an error, and the manager
\* thread panics only when a File source cannot be opened (which is not a
\* disconnection).
C22_DisconnectionNeverFails ==
    /\ mgr # "returned_err"
    /\ mgr = "panicked" => current_config.kind = "File"

\* C22 amended: a disconnection ends the run with an error only where a
\* StateSnapshot is to be published and the event receiver is gone. A closed
\* command channel marks the exit, and the run then ends with Ok; a sink that
\* finds the receiver gone ends its stage and the run goes on to end with Ok
\* or to a rebuild; the manager panics only in build_graph on a File source.
C22_DisconnectionFailsOnlyAtSnapshot ==
    /\ [][(mgr' = "returned_err" /\ mgr # "returned_err")
            => mgr = "snapshot" /\ ~event_rx_alive]_vars
    /\ [][(mgr' = "panicked" /\ mgr # "panicked")
            => mgr = "loop" /\ current_config.kind = "File"]_vars
    /\ [][(mgr = "poll" /\ mgr' # "poll" /\ cmd_chan = <<>> /\ ~cmd_tx_alive)
            => mgr' = "join" /\ should_exit']_vars
    /\ [][(mgr = "join" /\ mgr' # "join")
            => mgr' = IF should_exit THEN "returned_ok" ELSE "loop"]_vars

\* the run has ended with Ok, both peers gone and no command ever taken
C22_Witness ==
    /\ mgr = "returned_ok"
    /\ ~event_rx_alive
    /\ ~cmd_tx_alive
    /\ processed = <<>>
    /\ \E k \in Builds : FramesOf(k) # {}

\* C23: a snapshot send that finds the event receiver gone does not wait, and
\* the step that ends it ends the whole run with an error: no worker is
\* started for that build, nothing is published and no command is taken, then
\* or afterwards; and the run ends with an error in no other way.
C23_ClosedSinkAbortsRun ==
    /\ []((mgr = "snapshot" /\ ~event_rx_alive) => ENABLED PublishSnapshot)
    /\ [][(mgr = "snapshot" /\ mgr' # "snapshot" /\ ~event_rx_alive)
            => /\ mgr' = "returned_err"
               /\ UNCHANGED <<worker, published, processed, event_chan>>]_vars
    /\ [](mgr = "returned_err"
            => /\ ~event_rx_alive
               /\ builds > 0
               /\ worker[builds] = "none"
               /\ SnapshotsOf(builds) = {}
               /\ \A k \in Builds : ~Running(k))
    /\ [][mgr = "returned_err"
            => /\ mgr' = "returned_err"
               /\ UNCHANGED <<worker, published, processed, builds>>]_vars

\* the run was aborted at a rebuild, with a command sent and never taken
C23_Witness ==
    /\ mgr = "returned_err"
    /\ builds = 2
    /\ Len(sent) > Len(processed)

\* C24: a pipeline that cannot be constructed ends Engine::run with an error
\* result: the manager thread never panics, and a build step that does not
\* yield a graph ends the run with an error.
C24_ConstructionFailureSurfaced ==
    /\ [](mgr # "panicked")
    /\ [][(mgr = "loop" /\ mgr' # "loop" /\ builds' = builds)
            => mgr' = "returned_err"]_vars

\* C25: whatever the worker thread ended with (Ok, an error, a panic), the
\* join returns as soon as the thread has ended, the iteration then ends
\* normally (the run goes on to the next build, or ends with Ok when the exit
\* is marked) without touching the manager's state, and the manager never
\* panics at the join.
C25_WorkerFaultContained ==
    /\ []((mgr = "join" /\ worker[builds] = "finished") => ENABLED Join)
    /\ [][(mgr = "join" /\ mgr' # "join")
            => /\ worker[builds] = "finished"
               /\ mgr' = IF should_exit THEN "returned_ok" ELSE "loop"
               /\ UNCHANGED <<should_exit, current_config, builds>>]_vars
    /\ [](mgr \in {"panicked", "returned_err"}
            => \A k \in Builds : graph_result[k] = "none")

\* the run has ended with Ok after its last worker panicked
C25_Witness ==
    /\ mgr = "returned_ok"
    /\ graph_result[builds] = "panic"

\* C26: an execution error of the worker is surfaced in the result of
\* Engine::run: the run does not end with Ok when its last worker ended with
\* an error.
C26_WorkerErrorSurfaced ==
    mgr = "returned_ok" => graph_result[builds] # "err"

\* C27: with the command channel open and no command ever arriving, once the
\* worker has ended on its own (the sink found the receiver gone, the source
\* ran out, an error, a panic) while the manager polls, the run ends: the
\* poll's timeout finds the worker finished.
C27_FinishedWorkerEndsRun ==
    (mgr = "poll" /\ worker[builds] = "finished") ~> Terminated

\* the run has ended with the command channel open and no command ever sent:
\* the timeout found the worker finished
C27_Witness ==
    /\ mgr = "returned_ok"
    /\ cmd_tx_alive
    /\ sent = <<>>
    /\ IsFinished(builds)

\* the engine is constructed and run() has not taken its first step
Constructed == mgr = "loop" /\ builds = 0

\* C28: Engine::new yields an engine for every config, the exit flag cleared,
\* and as long as run() has not taken a step nothing was published, no
\* command was taken out of the channel (whatever was sent is still queued),
\* no pipeline was built and no thread started.
C28_NewHasNoEffect ==
    /\ Constructed
    /\ published = <<>>
    /\ [](Constructed
            => /\ ~should_exit
               /\ published = <<>>
               /\ event_chan = <<>>
               /\ processed = <<>>
               /\ cmd_chan = sent
               /\ \A k \in Builds :
                    /\ worker[k] = "none"
                    /\ ~cancel_token[k]
                    /\ produced[k] = 0)

\* an engine constructed for a File source, commands queued before it runs
C28_Witness ==
    /\ Constructed
    /\ current_config.kind = "File"
    /\ Len(cmd_chan) = MAX_CMDS

\* C29: every StateSnapshot published carries center_frequency 0, the fixed
\* fft_size, and the config its pipeline was built from together with that
\* config's sample rate: the config is the engine's current one at the build
\* and at the send, which for a rebuild is the config of the ChangeSource
\* that ended the previous iteration.
C29_SnapshotContents ==
    /\ [](\A i \in DOMAIN published :
            published[i].event.type = "StateSnapshot" =>
               LET state == published[i].event.state
               IN  /\ state.center_frequency = 0
                   /\ state.fft_size = FFT_SIZE
                   /\ state.source_config \in SourceConfig
                   /\ state.sample_rate = state.source_config.sample_rate
                   /\ \A j \in DOMAIN processed :
                        (/\ processed[j].build + 1 = published[i].build
                         /\ processed[j].cmd.type = "ChangeSource")
                        => state.source_config = processed[j].cmd.config)
    /\ [][mgr = "snapshot" => current_config' = current_config]_vars
    /\ [][Len(published') > Len(published)
            /\ published'[Len(published')].event.type = "StateSnapshot"
          => /\ mgr = "snapshot"
             /\ published'[Len(published')].build = builds
             /\ published'[Len(published')].event.state.source_config
                  = current_config]_vars

\* the first pipeline announced the signal generator's rate, the rebuilt one
\* the file's
C29_Witness ==
    \E i, j \in DOMAIN published :
        /\ published[i].build = 1
        /\ published[i].event.type = "StateSnapshot"
        /\ published[i].event.state.sample_rate = 48000
        /\ published[j].build = 2
        /\ published[j].event.type = "StateSnapshot"
        /\ published[j].event.state.source_config = FileSourceConfig
        /\ published[j].event.state.sample_rate = 3200000

-----------------------------------------------------------------------------
(* the samples of a file *)

\* whole samples a file holds
WholeSamples(f) == Len(f) \div SAMPLE_BYTES

\* whole samples wholly behind the cursor: read or skipped
SamplesBehind(pos) == (pos + SAMPLE_BYTES - 1) \div SAMPLE_BYTES

\* whole samples ahead of the cursor
SamplesLeft(f, pos) ==
    IF SamplesBehind(pos) >= WholeSamples(f) THEN 0
    ELSE WholeSamples(f) - SamplesBehind(pos)

\* C30: without looping, on a source none of whose reads has failed, a
\* read_samples call that returns gives Ok(n) with n the smaller of buf.len()
\* and the number of whole samples left in the file; buf[0..n] are the next n
\* samples of the file in file order, buf[n..] is as it was handed in (zeros),
\* and a call begun at the end of the file gives 0.
C30_ReadSamples ==
    (~loop_on_eof /\ ~failed /\ rd = "idle" /\ reads > 0) =>
        LET before == SamplesBehind(pos_at_call)
            n == Min(Len(buf), SamplesLeft(file, pos_at_call))
        IN  /\ result = Ok(n)
            /\ \A i \in 1..Len(buf) :
                 buf[i] = IF i <= n
                          THEN SampleFromBytes(file, before + i)
                          ELSE Complex(0, 0)
            /\ pos_at_call = Len(file) => result = Ok(0)
            /\ \A i \in 1..n :
                 /\ buf[i].re = FromLeBytes([k \in 1..F32_BYTES |->
                                   (before + i - 1) * SAMPLE_BYTES + k])
                 /\ buf[i].im = FromLeBytes([k \in 1..F32_BYTES |->
                                   (before + i - 1) * SAMPLE_BYTES + F32_BYTES + k])

\* the third call found one whole sample and half a sample left for a buffer
\* of three
C30_Witness ==
    /\ ~loop_on_eof
    /\ ~failed
    /\ rd = "idle"
    /\ reads = MAX_READS
    /\ pos_at_call = SAMPLE_BYTES
    /\ Len(file) = 2 * SAMPLE_BYTES + F32_BYTES
    /\ Len(buf) = MAX_BUF_LEN
    /\ result = Ok(1)

-----------------------------------------------------------------------------
\* C31: with loop_on_eof, a read_samples call begun at the end of the file,
\* with a non-empty buffer on a file of at least one whole sample, returns,
\* and when it returns Ok the count is never 0: it is the smaller of buf.len()
\* and the file's whole samples, and buf[0..n] are the file's first n
\* samples, the rest of buf as handed in.
C31_LoopRestartsFromStart ==
    /\ []((/\ loop_on_eof
           /\ rd = "idle"
           /\ result.kind = "Ok"
           /\ pos_at_call = Len(file)
           /\ Len(buf) > 0
           /\ WholeSamples(file) >= 1)
          => LET n == Min(Len(buf), WholeSamples(file))
             IN  /\ result = Ok(n)
                 /\ result.n # 0
                 /\ \A i \in 1..Len(buf) :
                      buf[i] = IF i <= n THEN SampleFromBytes(file, i)
                               ELSE Complex(0, 0)
                 /\ \A i \in 1..n :
                      /\ buf[i].re = FromLeBytes([k \in 1..F32_BYTES |->
                                        (i - 1) * SAMPLE_BYTES + k])
                      /\ buf[i].im = FromLeBytes([k \in 1..F32_BYTES |->
                                        (i - 1) * SAMPLE_BYTES + F32_BYTES + k]))
    /\ (/\ loop_on_eof
        /\ rd = "loop"
        /\ pos_at_call = Len(file)
        /\ Len(buf) > 0
        /\ WholeSamples(file) >= 1) ~> (rd = "idle")

\* the second call began at the end of a two-sample file and gave its first
\* sample again
C31_Witness ==
    /\ loop_on_eof
    /\ rd = "idle"
    /\ reads = 2
    /\ Len(file) = 2 * SAMPLE_BYTES
    /\ pos_at_call = Len(file)
    /\ Len(buf) = 1
    /\ result = Ok(1)
    /\ file_pos = SAMPLE_BYTES

-----------------------------------------------------------------------------
\* C32: run() returns Ok only out of an iteration that ended (its worker
\* joined) with the exit flag set; the flag is set only while polling, by a
\* Stop taken, by a command channel found empty and disconnected, or by a
\* timeout that finds the worker finished; and where a poll would time out
\* with the worker still running, the manager stays in the poll and its exit
\* flag, config and token stay as they are.
C32_ExitOnlyWhenMarked ==
    /\ [](mgr = "returned_ok" => should_exit /\ IsFinished(builds))
    /\ [][(mgr' = "returned_ok" /\ mgr # "returned_ok")
            => mgr = "join" /\ should_exit /\ IsFinished(builds)]_vars
    /\ [][(should_exit' /\ ~should_exit)
            => /\ mgr = "poll"
               /\ \/ /\ Len(processed') = Len(processed) + 1
                     /\ processed'[Len(processed')].cmd = Stop
                  \/ /\ processed' = processed
                     /\ cmd_chan = <<>>
                     /\ ~cmd_tx_alive
                  \/ /\ processed' = processed
                     /\ cmd_chan = <<>>
                     /\ cmd_tx_alive
                     /\ IsFinished(builds)]_vars
    /\ [][(mgr = "poll" /\ cmd_chan = <<>> /\ cmd_tx_alive /\ ~IsFinished(builds))
            => UNCHANGED <<mgr, should_exit, current_config, cancel_token,
                           builds, processed>>]_vars

\* the run has ended with Ok on a Stop taken by the second iteration
C32_Witness ==
    /\ mgr = "returned_ok"
    /\ builds = 2
    /\ processed[Len(processed)] = [build |-> 2, cmd |-> Stop]
    /\ \E k \in Builds : FramesOf(k) # {}

\* C33: the exit flag, once set, stays set, and from then on no pipeline is
\* built, no StateSnapshot is published and no command is taken, whatever is
\* still queued behind the Stop.
C33_ExitIsFinal ==
    [][should_exit
        => /\ should_exit'
           /\ builds' = builds
           /\ processed' = processed
           /\ current_config' = current_config
           /\ \A k \in Builds : SnapshotsOf(k)' = SnapshotsOf(k)
           /\ mgr' \in {"join", "returned_ok"}]_vars

\* the run has ended on a Stop with a ChangeSource sent after it and never
\* taken
C33_Witness ==
    /\ mgr = "returned_ok"
    /\ Len(sent) = 2
    /\ sent[1] = Stop
    /\ sent[2].type = "ChangeSource"
    /\ processed = <<[build |-> 1, cmd |-> Stop]>>

\* C34: a pipeline's token is raised at most once and never lowered; it is
\* raised only for the current pipeline, by the step of the manager that
\* leaves the poll on a command taken (Stop or ChangeSource) or on the command
\* channel found disconnected, the token not yet raised at that point; the
\* timeout that finds the worker finished leaves every token as it is.
C34_CancelOnce ==
    /\ [](\A k \in Builds :
            /\ k > builds => ~cancel_token[k]
            /\ (k = builds /\ mgr \in {"snapshot", "spawn", "poll"})
                 => ~cancel_token[k])
    /\ [][\A k \in Builds :
            /\ cancel_token[k] => cancel_token'[k]
            /\ (cancel_token'[k] /\ ~cancel_token[k])
                 => /\ k = builds
                    /\ mgr = "poll"
                    /\ mgr' = "join"
                    /\ \/ /\ Len(processed') = Len(processed) + 1
                          /\ processed'[Len(processed')].build = k
                       \/ /\ processed' = processed
                          /\ cmd_chan = <<>>
                          /\ ~cmd_tx_alive]_vars
    /\ [][(mgr = "poll" /\ mgr' # "poll")
            => cancel_token'[builds] = (~cmd_tx_alive \/ cmd_chan # <<>>)]_vars

\* the first pipeline was cancelled by a ChangeSource, the second ended on
\* its own and the run with it: its token was never raised
C34_Witness ==
    /\ mgr = "returned_ok"
    /\ builds = 2
    /\ cancel_token[1]
    /\ ~cancel_token[2]

\* C35: current_config changes only in the step that takes a ChangeSource
\* out of the channel, and that step sets it to the command's config, before
\* the build that follows; a Stop taken and every other step (timeouts, the
\* worker's steps and end, the snapshot send, the join, the build) leave it as
\* it is; so every build uses the config of the ChangeSource that ended the
\* iteration before it.
C35_ConfigChangesByChangeSource ==
    /\ [][current_config' # current_config
            => /\ mgr = "poll"
               /\ mgr' = "join"
               /\ builds' = builds
               /\ processed' = Append(processed,
                     [build |-> builds, cmd |-> ChangeSource(current_config')])]_vars
    /\ [][Len(processed') = Len(processed) + 1
            => LET msg == processed'[Len(processed')].cmd
               IN  current_config' =
                     IF msg.type = "ChangeSource" THEN msg.config
                     ELSE current_config]_vars
    /\ [][builds' = builds + 1
            => /\ current_config' = current_config
               /\ \A i \in DOMAIN processed :
                    (processed[i].build = builds
                       /\ processed[i].cmd.type = "ChangeSource")
                    => current_config = processed[i].cmd.config]_vars

\* the engine built for the signal generator has been switched to the file
\* and rebuilt
C35_Witness ==
    /\ builds = 2
    /\ mgr = "poll"
    /\ current_config = FileSourceConfig
    /\ processed = <<[build |-> 1, cmd |-> ChangeSource(FileSourceConfig)]>>
    /\ published[1].event.state.source_config = DefaultSourceConfig

-----------------------------------------------------------------------------
\* C36: when RustIqApp::update has returned, no event that was waiting in the
\* event channel when that update began is still waiting in it.
C36_UpdateDrainsChannel == app_pc = "idle" => app_stale = 0

-----------------------------------------------------------------------------
\* C37: the image of a Waterfall never has more rows than the configured
\* maximum, however many lines were inserted and however often it was drawn.
C37_WidgetRasterBounded == image_size[2] <= WATERFALL_MAX_LINES

-----------------------------------------------------------------------------
-----------------------------------------------------------------------------
\* C40: a ControlPanel has sent at most one ChangeSource since the latest
\* update_from_engine_state (or since it was made); Apply sends only with
\* has_pending_changes set and waiting_for_apply clear, and sets
\* waiting_for_apply; only update_from_engine_state clears waiting_for_apply.
C40_OneUnacknowledged ==
    /\ [](unacknowledged <= 1)
    /\ [](waiting_for_apply <=> unacknowledged = 1)
    /\ [][panel_cmds' # panel_cmds
            => /\ has_pending_changes /\ ~waiting_for_apply
               /\ waiting_for_apply'
               /\ panel_cmds' = Append(panel_cmds, ChangeSource(pending_config))]_vars
    /\ [][(waiting_for_apply /\ ~waiting_for_apply')
            => /\ unacknowledged' = 0
               /\ ~has_pending_changes'
               /\ panel_cmds' = panel_cmds]_vars

\* a panel has sent a second ChangeSource, after the first was answered
C40_Witness ==
    /\ Len(panel_cmds) = 2
    /\ waiting_for_apply
    /\ unacknowledged = 1

\* C39: every read_samples call returns, in both modes, whatever the file and
\* the buffer.
C39_ReadSamplesTerminates ==
    (rd = "loop") ~> (rd = "idle")

====
